---- MODULE Spec2Model ----
(***************************************************************************)
(* Verification model of the poker range scanner                           *)
(* (src/range-scanner/poker_range_analyzer.py and range_query_service.py). *)
(*                                                                         *)
(* The module holds one state machine per component, each with its own     *)
(* specification; the variables of the components a specification does not *)
(* exercise stay at their idle value.                                      *)
(*   SpecPosition    HandHistoryParser.get_position                        *)
(*   SpecTournament  HandHistoryParser.parse_tournament / _build_stage_map *)
(*   SpecDistributor process_tournaments / process_tournament_worker       *)
(*   SpecQuery       _APIRequestHandler.do_GET / RangeQueryService         *)
(*   SpecCards       HandHistoryParser.normalize_card_notation             *)
(*   SpecSizing      RangeAnalyzer.categorize_bet_size on parsed actions   *)
(*   SpecHand        HandHistoryParser.parse_single_hand / add_hand        *)
(*   SpecExport      RangeDatabaseExporter.export                          *)
(*   SpecReport      RangeReportBuilder.generate_report                    *)
(*   SpecBlinds      RangeAnalyzer.categorize_bb_size on parsed actions    *)
(***************************************************************************)
EXTENDS Integers, Sequences, FiniteSets, TLC

VARIABLES
    \* ---- get_position: the call's arguments and its return value
    seat_num, button_seat, total_seats, position,
    \* ---- parse_tournament: argument, locals and the position in the code
    file_entries, file_idx, hand_entries, order_index, hands_parsed,
    stage_map, stage_labels, pt_pc,
    \* the locals bubble_level and pre_bubble_levels of _build_stage_map as it
    \* leaves them, and the shown_hands list of parse_tournament
    bubble_level, pre_bubble_levels, tournament_shown,
    \* ---- process_tournaments: arguments, accumulators, the tasks whose result the
    \* pool has not yielded yet, the sequential loop's index, the position in the code
    tasks, worker_count, occurrences, total_hands_parsed, total_shown_hands,
    total_actions, unyielded, seq_idx, pd_pc,
    \* ---- query service: the warehouse table, the GET requests being served and,
    \* per request, the handler's position, the parsed filters, the connection,
    \* the rows fetched so far, how query_ranges ended and the responses sent
    warehouse, requests, rq_pc, filters, conn, open_conns, next_conn, rows,
    query_ranges_exit, responses,
    \* ---- normalize_card_notation: the argument and the return value
    cards_text, normalized,
    \* ---- bet sizing: the type, the two amounts and the pot of two actions of the
    \* same kind, the HandActions built from them and their pot categories
    bet_type, bet_amounts, bet_pot, bet_actions, pot_categories,
    \* ---- parse_single_hand and the worker's add_hand loop: the hand text, the
    \* position in the code, the locals, and the analyzer's accumulators
    hand, ph_pc, players, line_idx, current_stage, pot_size, actions_by_player,
    shown_idx, shown_hands, add_idx, analyzer_occurrences, analyzer_shown_hands,
    \* ---- export: the occurrence lists exported one after the other to the same
    \* path, the file at that path, the export under way and its position in the
    \* code, the loop index, the batch, and the statements executed on the connection
    exports, disk, export_idx, export_pc, occ_idx, batch, batch_count, executed,
    \* ---- report: the warehouse rows of one cell and, per run of generate_report,
    \* the position in the code, the fetched action data and the lines of the block
    report_table, report_pc, action_data, report_lines,
    \* ---- big blind sizing: the type, stage, amount and big blind of an action,
    \* the HandAction built from them and its big blind category
    blind_input, blind_action, bb_bucket

posVars == <<seat_num, button_seat, total_seats, position>>
ptVars == <<file_entries, file_idx, hand_entries, order_index, hands_parsed,
            stage_map, stage_labels, pt_pc, bubble_level, pre_bubble_levels,
            tournament_shown>>
pdVars == <<tasks, worker_count, occurrences, total_hands_parsed, total_shown_hands,
            total_actions, unyielded, seq_idx, pd_pc>>
rqVars == <<warehouse, requests, rq_pc, filters, conn, open_conns, next_conn, rows,
            query_ranges_exit, responses>>
cdVars == <<cards_text, normalized>>
szVars == <<bet_type, bet_amounts, bet_pot, bet_actions, pot_categories>>
phVars == <<hand, ph_pc, players, line_idx, current_stage, pot_size, actions_by_player,
            shown_idx, shown_hands, add_idx, analyzer_occurrences, analyzer_shown_hands>>
exVars == <<exports, disk, export_idx, export_pc, occ_idx, batch, batch_count, executed>>
rbVars == <<report_table, report_pc, action_data, report_lines>>
bbVars == <<blind_input, blind_action, bb_bucket>>
vars == <<posVars, ptVars, pdVars, rqVars, cdVars, szVars, phVars, exVars, rbVars, bbVars>>

\* What each component leaves alone: the variables of the other components.
posOthers == <<ptVars, pdVars, rqVars, cdVars, szVars, phVars, exVars, rbVars, bbVars>>
ptOthers == <<posVars, pdVars, rqVars, cdVars, szVars, phVars, exVars, rbVars, bbVars>>
pdOthers == <<posVars, ptVars, rqVars, cdVars, szVars, phVars, exVars, rbVars, bbVars>>
rqOthers == <<posVars, ptVars, pdVars, cdVars, szVars, phVars, exVars, rbVars, bbVars>>
cdOthers == <<posVars, ptVars, pdVars, rqVars, szVars, phVars, exVars, rbVars, bbVars>>
szOthers == <<posVars, ptVars, pdVars, rqVars, cdVars, phVars, exVars, rbVars, bbVars>>
phOthers == <<posVars, ptVars, pdVars, rqVars, cdVars, szVars, exVars, rbVars, bbVars>>
exOthers == <<posVars, ptVars, pdVars, rqVars, cdVars, szVars, phVars, rbVars, bbVars>>
rbOthers == <<posVars, ptVars, pdVars, rqVars, cdVars, szVars, phVars, exVars, bbVars>>
bbOthers == <<posVars, ptVars, pdVars, rqVars, cdVars, szVars, phVars, exVars, rbVars>>

(***************************************************************************)
(* Bounds of the model.                                                    *)
(***************************************************************************)
MaxSeats == 11
MaxFiles == 2
MaxBlocks == 2
MaxHands == 3
MaxTasks == 3
MaxWorkers == 3
MaxRows == 3
MaxClients == 2
MaxLines == 3
MaxExports == 2
MaxReportRows == 3

RECURSIVE SeqsUpTo(_, _)
\* All sequences over S of length at most n.
SeqsUpTo(S, n) ==
    IF n = 0 THEN {<<>>}
    ELSE LET shorter == SeqsUpTo(S, n - 1)
         IN  shorter \cup {Append(s, x) : s \in {t \in shorter : Len(t) = n - 1}, x \in S}

(***************************************************************************)
(* Position Mapper: HandHistoryParser.get_position                         *)
(***************************************************************************)
\* The per-table-size dictionary pos_map, as a function on 0..n-1.
pos_map(n) ==
    CASE n = 2 -> [k \in 0..1 |-> IF k = 0 THEN "BTN" ELSE "BB"]
      [] n = 3 -> [k \in 0..2 |-> CASE k = 0 -> "BTN" [] k = 1 -> "SB" [] OTHER -> "BB"]
      [] n = 4 -> [k \in 0..3 |-> CASE k = 0 -> "BTN" [] k = 1 -> "SB" [] k = 2 -> "BB"
                                    [] OTHER -> "CO"]
      [] n = 5 -> [k \in 0..4 |-> CASE k = 0 -> "BTN" [] k = 1 -> "SB" [] k = 2 -> "BB"
                                    [] k = 3 -> "EP(6)" [] OTHER -> "CO"]
      [] n = 6 -> [k \in 0..5 |-> CASE k = 0 -> "BTN" [] k = 1 -> "SB" [] k = 2 -> "BB"
                                    [] k = 3 -> "EP(6)" [] k = 4 -> "MP(6)" [] OTHER -> "CO"]
      [] n = 7 -> [k \in 0..6 |-> CASE k = 0 -> "BTN" [] k = 1 -> "SB" [] k = 2 -> "BB"
                                    [] k \in 3..4 -> "EP(7+)" [] k = 5 -> "MP(7+)"
                                    [] OTHER -> "CO"]
      [] n = 8 -> [k \in 0..7 |-> CASE k = 0 -> "BTN" [] k = 1 -> "SB" [] k = 2 -> "BB"
                                    [] k \in 3..4 -> "EP(7+)" [] k \in 5..6 -> "MP(7+)"
                                    [] OTHER -> "CO"]
      [] n = 9 -> [k \in 0..8 |-> CASE k = 0 -> "BTN" [] k = 1 -> "SB" [] k = 2 -> "BB"
                                    [] k \in 3..5 -> "EP(7+)" [] k \in 6..7 -> "MP(7+)"
                                    [] OTHER -> "CO"]
      \* the final else: the ten-entry "10+" dictionary (also reached by total_seats = 1)
      [] OTHER -> [k \in 0..9 |-> CASE k = 0 -> "BTN" [] k = 1 -> "SB" [] k = 2 -> "BB"
                                    [] k \in 3..6 -> "EP(7+)" [] k \in 7..8 -> "MP(7+)"
                                    [] OTHER -> "CO"]

\* Mutant of seats_after_button: the distance is taken from the seat after the button.
seats_after_button_shifted(seat, button, n) == (seat - button + 1) % n

\* seats_after_button = (seat_num - button_seat) % total_seats (Python's %, never negative).
seats_after_button(seat, button, n) == (seat - button) % n

get_position(seat, button, n) ==
    IF n <= 0 THEN "UNKNOWN"
    ELSE LET k == seats_after_button(seat, button, n)
             pm == pos_map(n)
         IN  IF k \in DOMAIN pm THEN pm[k] ELSE "UNKNOWN"

PositionInit ==
    /\ seat_num \in 1..MaxSeats
    /\ button_seat \in 1..MaxSeats
    /\ total_seats \in 0..MaxSeats
    /\ position = "not called"

PositionIdle ==
    /\ seat_num = 0 /\ button_seat = 0 /\ total_seats = 0
    /\ position = "idle"

\* One call of get_position on the drawn arguments.
GetPosition ==
    /\ position = "not called"
    /\ position' = get_position(seat_num, button_seat, total_seats)
    /\ UNCHANGED <<seat_num, button_seat, total_seats>>
    /\ UNCHANGED posOthers

PositionNext == GetPosition

(***************************************************************************)
(* Tournament Driver and Stage Classifier:                                 *)
(* HandHistoryParser.parse_tournament and _build_stage_map                 *)
(*                                                                         *)
(* A file is a record [chunk, readable, blocks]; blocks are the pieces     *)
(* re.split(r"\n\n+") cuts the content into.  A block records what the     *)
(* patterns of the driver and the classifier find in its text:             *)
(*   blank     the block is empty after strip()                            *)
(*   hand_no   the digits of "PokerStars Hand #<d+>", 0 when absent        *)
(*   level     the LEVEL_PATTERN token, "UNKNOWN" when absent              *)
(*   payout    PAYOUT_PATTERN matches ("finished ... in N ... received $") *)
(*   final     some FINISH_PATTERN match has place <= 9                    *)
(***************************************************************************)
None == -1

\* A block of a file: whether it is blank, the digits of its hand number (0 when
\* it has none), its level label, whether it holds a payout line and a finish in
\* the first nine places, and how parse_single_hand ends on it: with the hands
\* shown, with [] for want of a button line, or by raising.
BlankBlock == [blank |-> TRUE, hand_no |-> 0, level |-> "UNKNOWN",
               payout |-> FALSE, final |-> FALSE, parse |-> "shown"]
PlainHand == [blank |-> FALSE, hand_no |-> 0, level |-> "I",
              payout |-> FALSE, final |-> FALSE, parse |-> "shown"]
LevelLabels == {"I", "II"}
HandNumbers == {0, 101}
HandBlocks == [blank : {FALSE}, hand_no : HandNumbers, level : LevelLabels,
               payout : BOOLEAN, final : BOOLEAN, parse : {"shown"}]
ParseBlocks == [blank : {FALSE}, hand_no : {0}, level : {"I"},
                payout : BOOLEAN, final : {FALSE},
                parse : {"shown", "no_button", "raises"}]
\* The levels of a tournament that climbs through five of them.
Ladder == <<"I", "II", "III", "IV", "V">>

\* A hand id: the captured digits, or the fallback f"{tournament_id}_{order_index}".
HandId(block, order) ==
    IF block.hand_no # 0 THEN [kind |-> "hand", n |-> block.hand_no]
    ELSE [kind |-> "fallback", n |-> order]

\* The text an entry refers to: entry.text = <<file index, block index>>.
Text(entry) == file_entries[entry.text[1]].blocks[entry.text[2]]

\* The dictionary appended to hand_entries for block b of file f.
Entry(f, b, order) ==
    LET block == file_entries[f].blocks[b]
    IN  [id |-> HandId(block, order), text |-> <<f, b>>, level |-> block.level,
         order |-> order, chunk |-> file_entries[f].chunk, source_file |-> f]

RECURSIVE ReadBlocksCountingBlank(_, _, _, _)
\* Mutant of ReadBlocks: order_index advances on blank blocks too.
ReadBlocksCountingBlank(f, b, entries, order) ==
    IF b > Len(file_entries[f].blocks) THEN [entries |-> entries, order |-> order]
    ELSE IF file_entries[f].blocks[b].blank
         THEN ReadBlocksCountingBlank(f, b + 1, entries, order + 1)
         ELSE ReadBlocksCountingBlank(f, b + 1, Append(entries, Entry(f, b, order)), order + 1)

RECURSIVE ReadBlocks(_, _, _, _)
\* The inner loop of parse_tournament over the blocks of file f, from block b on:
\* a blank block is skipped, any other is appended with the running order_index.
\* Yields hand_entries and order_index as the loop leaves them.
ReadBlocks(f, b, entries, order) ==
    IF b > Len(file_entries[f].blocks) THEN [entries |-> entries, order |-> order]
    ELSE IF file_entries[f].blocks[b].blank
         THEN ReadBlocks(f, b + 1, entries, order)
         ELSE ReadBlocks(f, b + 1, Append(entries, Entry(f, b, order)), order + 1)

RECURSIVE ScanEntries(_, _, _)
\* The first loop of _build_stage_map: acc carries levels_in_order,
\* first_payout_index, bubble_level and first_final_table_index.
ScanEntries(entries, i, acc) ==
    IF i > Len(entries) THEN acc
    ELSE LET entry == entries[i]
             level == entry.level
             seen == \E j \in 1..Len(acc.levels_in_order) : acc.levels_in_order[j] = level
             levels == IF seen THEN acc.levels_in_order
                       ELSE Append(acc.levels_in_order, level)
             pay == acc.first_payout_index = None /\ Text(entry).payout
             fin == acc.first_final_table_index = None /\ Text(entry).final
         IN  ScanEntries(entries, i + 1,
                [levels_in_order |-> levels,
                 first_payout_index |-> IF pay THEN entry.order ELSE acc.first_payout_index,
                 bubble_level |-> IF pay THEN level ELSE acc.bubble_level,
                 first_final_table_index |->
                     IF fin THEN entry.order ELSE acc.first_final_table_index])

\* levels_in_order.index(x): the first position of x (0-based); x is present.
IndexOf(seq, x) == (CHOOSE j \in 1..Len(seq) : seq[j] = x /\ \A k \in 1..(j - 1) : seq[k] # x) - 1

\* Mutant of PreBubbleLevels: every level seen before the bubble level.
PreBubbleLevelsUncapped(acc) ==
    IF acc.bubble_level # "None"
       /\ \E j \in 1..Len(acc.levels_in_order) : acc.levels_in_order[j] = acc.bubble_level
    THEN SubSeq(acc.levels_in_order, 1, IndexOf(acc.levels_in_order, acc.bubble_level))
    ELSE <<>>
\* pre_bubble_levels = levels_in_order[max(0, bubble_pos - 3):bubble_pos]
PreBubbleLevels(acc) ==
    IF acc.bubble_level # "None"
       /\ \E j \in 1..Len(acc.levels_in_order) : acc.levels_in_order[j] = acc.bubble_level
    THEN LET bubble_pos == IndexOf(acc.levels_in_order, acc.bubble_level)
             start_idx == IF bubble_pos - 3 > 0 THEN bubble_pos - 3 ELSE 0
         IN  SubSeq(acc.levels_in_order, start_idx + 1, bubble_pos)
    ELSE <<>>

\* The stage the second loop of _build_stage_map computes for one entry.
StageOf(entry, acc, pre_levels) ==
    IF acc.first_final_table_index # None /\ entry.order >= acc.first_final_table_index
    THEN "final_table"
    ELSE IF /\ acc.first_payout_index # None
            /\ acc.bubble_level # "None"
            /\ entry.level = acc.bubble_level
            /\ entry.order >= acc.first_payout_index
    THEN "bubble"
    ELSE IF /\ acc.first_payout_index # None
            /\ \E j \in 1..Len(pre_levels) : pre_levels[j] = entry.level
            /\ entry.order < acc.first_payout_index
    THEN "pre_bubble"
    ELSE "start"

\* _build_stage_map: the dictionary id -> stage; a later entry with the same id
\* overwrites the stage stored for an earlier one.
\* The locals of _build_stage_map after its first loop.
Scanned(entries) ==
    ScanEntries(entries, 1,
        [levels_in_order |-> <<>>, first_payout_index |-> None,
         bubble_level |-> "None", first_final_table_index |-> None])

_build_stage_map(entries) ==
    LET acc == Scanned(entries)
        pre == PreBubbleLevels(acc)
        ids == {entries[i].id : i \in 1..Len(entries)}
        last(id) == CHOOSE i \in 1..Len(entries) :
                        /\ entries[i].id = id
                        /\ \A j \in (i + 1)..Len(entries) : entries[j].id # id
    IN  [id \in ids |-> StageOf(entries[last(id)], acc, pre)]

\* The files of a tournament task, chunk ascending as main() sorts them.
Files(kinds, n) ==
    {[i \in 1..Len(s) |-> [chunk |-> i, readable |-> s[i].readable, blocks |-> s[i].blocks]] :
        s \in SeqsUpTo(kinds, n)}

\* Input family 1: several files, readable or not, with blank and hand blocks.
ChunkFiles ==
    {[readable |-> FALSE, blocks |-> <<>>]}
    \cup {[readable |-> TRUE, blocks |-> b] : b \in SeqsUpTo({BlankBlock, PlainHand}, MaxBlocks)}

\* Input family 2: one readable file whose hands carry ids, levels and finishes.
StageFiles ==
    {[readable |-> TRUE, blocks |-> b] : b \in SeqsUpTo(HandBlocks, MaxHands)}

\* Input family 3: one readable file whose hands parse, lack a button line or
\* make parse_single_hand raise.
ParseFiles ==
    {[readable |-> TRUE, blocks |-> b] : b \in SeqsUpTo(ParseBlocks, MaxHands)}

\* Input family 4: one readable file of five hands with distinct hand numbers,
\* each on one of five levels, at most one of them with a payout line.
LadderFiles ==
    {[readable |-> TRUE,
      blocks |-> [i \in DOMAIN Ladder |->
                     [blank |-> FALSE, hand_no |-> 200 + i, level |-> levels[i],
                      payout |-> (i = paid), final |-> FALSE, parse |-> "shown"]]] :
        levels \in [DOMAIN Ladder -> {Ladder[i] : i \in DOMAIN Ladder}],
        paid \in 0..Len(Ladder)}

TournamentInit ==
    /\ file_entries \in Files(ChunkFiles, MaxFiles) \cup Files(StageFiles, 1)
                        \cup Files(ParseFiles, 1) \cup Files(LadderFiles, 1)
    /\ bubble_level = "None" /\ pre_bubble_levels = <<>> /\ tournament_shown = <<>>
    /\ file_idx = 1
    /\ hand_entries = <<>>
    /\ order_index = 0
    /\ hands_parsed = 0
    /\ stage_map = <<>>
    /\ stage_labels = <<>>
    /\ pt_pc = "files"

TournamentIdle ==
    /\ file_entries = <<>> /\ file_idx = 0 /\ hand_entries = <<>>
    /\ order_index = 0 /\ hands_parsed = 0
    /\ stage_map = <<>> /\ stage_labels = <<>> /\ pt_pc = "idle"
    /\ bubble_level = "None" /\ pre_bubble_levels = <<>> /\ tournament_shown = <<>>

\* for chunk_index, file_path in file_entries: the file opens and its blocks are read.
ReadFile ==
    /\ pt_pc = "files"
    /\ file_idx <= Len(file_entries)
    /\ file_entries[file_idx].readable
    /\ LET read == ReadBlocks(file_idx, 1, hand_entries, order_index)
       IN  /\ hand_entries' = read.entries
           /\ order_index' = read.order
           /\ hands_parsed' = hands_parsed + (Len(read.entries) - Len(hand_entries))
    /\ file_idx' = file_idx + 1
    /\ UNCHANGED <<file_entries, stage_map, stage_labels, pt_pc>>
    /\ UNCHANGED <<bubble_level, pre_bubble_levels, tournament_shown>>
    /\ UNCHANGED ptOthers

\* open() raises: except Exception: continue.
SkipFile ==
    /\ pt_pc = "files"
    /\ file_idx <= Len(file_entries)
    /\ ~file_entries[file_idx].readable
    /\ file_idx' = file_idx + 1
    /\ UNCHANGED <<file_entries, hand_entries, order_index, hands_parsed,
                   stage_map, stage_labels, pt_pc>>
    /\ UNCHANGED <<bubble_level, pre_bubble_levels, tournament_shown>>
    /\ UNCHANGED ptOthers

\* stage_map = self._build_stage_map(hand_entries)
BuildStageMap ==
    /\ pt_pc = "files"
    /\ file_idx > Len(file_entries)
    /\ stage_map' = _build_stage_map(hand_entries)
    /\ bubble_level' = Scanned(hand_entries).bubble_level
    /\ pre_bubble_levels' = PreBubbleLevels(Scanned(hand_entries))
    /\ pt_pc' = "hands"
    /\ UNCHANGED <<file_entries, file_idx, hand_entries, order_index, hands_parsed,
                   stage_labels>>
    /\ UNCHANGED tournament_shown
    /\ UNCHANGED ptOthers

\* stage_map.get(entry["id"], "start")
StageLabel(entry) ==
    IF entry.id \in DOMAIN stage_map THEN stage_map[entry.id] ELSE "start"

\* Mutant of parse_single_hand: a hand without a button line yields a PlayerHand.
parse_single_hand_without_button(entry, stage_label) ==
    IF Text(entry).parse \in {"shown", "no_button"}
    THEN <<[hand_id |-> entry.id, order_index |-> entry.order,
            tournament_stage |-> stage_label, chunk_index |-> entry.chunk]>>
    ELSE <<>>
\* parse_single_hand as parse_tournament sees it: [] for a hand without a button
\* line, otherwise the PlayerHands of the hand, which carry the hand's id,
\* order_index, chunk_index and the stage label handed in (one PlayerHand here).
parse_single_hand(entry, stage_label) ==
    IF Text(entry).parse = "shown"
    THEN <<[hand_id |-> entry.id, order_index |-> entry.order,
            tournament_stage |-> stage_label, chunk_index |-> entry.chunk]>>
    ELSE <<>>

\* for entry in hand_entries: the stage label is looked up and handed to
\* parse_single_hand as tournament_stage; what it returns extends shown_hands.
ParseEntry ==
    /\ pt_pc = "hands"
    /\ Len(stage_labels) < Len(hand_entries)
    /\ LET entry == hand_entries[Len(stage_labels) + 1]
       IN  /\ Text(entry).parse # "raises"
           /\ stage_labels' = Append(stage_labels, StageLabel(entry))
           /\ tournament_shown' =
                  tournament_shown \o parse_single_hand(entry, StageLabel(entry))
    /\ UNCHANGED <<file_entries, file_idx, hand_entries, order_index, hands_parsed,
                   stage_map, pt_pc, bubble_level, pre_bubble_levels>>
    /\ UNCHANGED ptOthers

\* parse_single_hand raises: except Exception: continue.
ParseRaises ==
    /\ pt_pc = "hands"
    /\ Len(stage_labels) < Len(hand_entries)
    /\ LET entry == hand_entries[Len(stage_labels) + 1]
       IN  /\ Text(entry).parse = "raises"
           /\ stage_labels' = Append(stage_labels, StageLabel(entry))
    /\ UNCHANGED <<file_entries, file_idx, hand_entries, order_index, hands_parsed,
                   stage_map, pt_pc, bubble_level, pre_bubble_levels, tournament_shown>>
    /\ UNCHANGED ptOthers

\* return shown_hands
ReturnShownHands ==
    /\ pt_pc = "hands"
    /\ Len(stage_labels) = Len(hand_entries)
    /\ pt_pc' = "returned"
    /\ UNCHANGED <<file_entries, file_idx, hand_entries, order_index, hands_parsed,
                   stage_map, stage_labels>>
    /\ UNCHANGED <<bubble_level, pre_bubble_levels, tournament_shown>>
    /\ UNCHANGED ptOthers

TournamentNext ==
    \/ ReadFile
    \/ SkipFile
    \/ BuildStageMap
    \/ ParseEntry
    \/ ParseRaises
    \/ ReturnShownHands


(***************************************************************************)
(* Work Distributor: process_tournaments and process_tournament_worker     *)
(*                                                                         *)
(* A task is a tournament; the model keeps of it what the distributor      *)
(* sees of process_tournament_worker(task): whether the call raises, and   *)
(* the result dictionary it returns otherwise.                             *)
(***************************************************************************)
TaskKinds == [raises : {"none", "PermissionError", "Exception"}, hands : {1, 2}]

\* The dictionary process_tournament_worker returns for task i: the occurrences of
\* the tournament (one per shown hand here) and the three counters.
process_tournament_worker(i) ==
    [tournament_id |-> i,
     occurrences |-> [k \in 1..tasks[i].hands |-> [tournament_id |-> i, row |-> k]],
     hands_parsed |-> tasks[i].hands + 1,
     shown_hands |-> tasks[i].hands,
     actions |-> tasks[i].hands]

DistributorInit ==
    /\ tasks \in SeqsUpTo(TaskKinds, MaxTasks)
    /\ worker_count \in 1..MaxWorkers
    /\ occurrences = <<>>
    /\ total_hands_parsed = 0
    /\ total_shown_hands = 0
    /\ total_actions = 0
    /\ unyielded = {}
    /\ seq_idx = 1
    /\ pd_pc = "start"

DistributorIdle ==
    /\ tasks = <<>> /\ worker_count = 0 /\ occurrences = <<>>
    /\ total_hands_parsed = 0 /\ total_shown_hands = 0 /\ total_actions = 0
    /\ unyielded = {} /\ seq_idx = 0 /\ pd_pc = "idle"

\* handle_result(idx, result): the accumulators grow by the result.
handle_result(result) ==
    /\ occurrences' = occurrences \o result.occurrences
    /\ total_hands_parsed' = total_hands_parsed + result.hands_parsed
    /\ total_shown_hands' = total_shown_hands + result.shown_hands
    /\ total_actions' = total_actions + result.actions

\* if total == 0: return occurrences, 0, 0, 0
ReturnEmpty ==
    /\ pd_pc = "start"
    /\ Len(tasks) = 0
    /\ pd_pc' = "returned"
    /\ UNCHANGED <<tasks, worker_count, occurrences, total_hands_parsed,
                   total_shown_hands, total_actions, unyielded, seq_idx>>
    /\ UNCHANGED pdOthers

\* if worker_count > 1: the try block is entered and the tasks go to the pool.
EnterPool ==
    /\ pd_pc = "start"
    /\ Len(tasks) > 0
    /\ worker_count > 1
    /\ unyielded' = 1..Len(tasks)
    /\ pd_pc' = "pool"
    /\ UNCHANGED <<tasks, worker_count, occurrences, total_hands_parsed,
                   total_shown_hands, total_actions, seq_idx>>
    /\ UNCHANGED pdOthers

\* worker_count == 1 from the start: straight to the sequential loop.
EnterSequential ==
    /\ pd_pc = "start"
    /\ Len(tasks) > 0
    /\ worker_count = 1
    /\ pd_pc' = "sequential"
    /\ UNCHANGED <<tasks, worker_count, occurrences, total_hands_parsed,
                   total_shown_hands, total_actions, unyielded, seq_idx>>
    /\ UNCHANGED pdOthers

\* imap_unordered yields the result of some task, in completion order.
PoolResult(i) ==
    /\ pd_pc = "pool"
    /\ i \in unyielded
    /\ tasks[i].raises = "none"
    /\ handle_result(process_tournament_worker(i))
    /\ unyielded' = unyielded \ {i}
    /\ UNCHANGED <<tasks, worker_count, seq_idx, pd_pc>>
    /\ UNCHANGED pdOthers

\* The worker raised on task i: the iterator re-raises the exception in the parent.
\* except PermissionError: worker_count = 1; anything else leaves the function.
PoolWorkerRaises(i) ==
    /\ pd_pc = "pool"
    /\ i \in unyielded
    /\ tasks[i].raises # "none"
    /\ IF tasks[i].raises = "PermissionError"
       THEN worker_count' = 1 /\ pd_pc' = "sequential"
       ELSE worker_count' = worker_count /\ pd_pc' = "raised"
    /\ UNCHANGED <<tasks, occurrences, total_hands_parsed, total_shown_hands,
                   total_actions, unyielded, seq_idx>>
    /\ UNCHANGED pdOthers

\* The environment denies the pool something (creating it, feeding it, ending it):
\* PermissionError inside the with block, at any point of the dispatch.
PoolPermissionError ==
    /\ pd_pc = "pool"
    /\ worker_count' = 1
    /\ pd_pc' = "sequential"
    /\ UNCHANGED <<tasks, occurrences, total_hands_parsed, total_shown_hands,
                   total_actions, unyielded, seq_idx>>
    /\ UNCHANGED pdOthers

\* Every result was yielded and the pool closes; worker_count is still > 1, so the
\* sequential block is skipped and the function returns.
PoolDone ==
    /\ pd_pc = "pool"
    /\ unyielded = {}
    /\ pd_pc' = "returned"
    /\ UNCHANGED <<tasks, worker_count, occurrences, total_hands_parsed,
                   total_shown_hands, total_actions, unyielded, seq_idx>>
    /\ UNCHANGED pdOthers

\* for idx, task in enumerate(tasks, start=1): the worker runs in this process.
SequentialResult ==
    /\ pd_pc = "sequential"
    /\ seq_idx <= Len(tasks)
    /\ tasks[seq_idx].raises = "none"
    /\ handle_result(process_tournament_worker(seq_idx))
    /\ seq_idx' = seq_idx + 1
    /\ UNCHANGED <<tasks, worker_count, unyielded, pd_pc>>
    /\ UNCHANGED pdOthers

\* The worker raises in the sequential loop: nothing catches it.
SequentialWorkerRaises ==
    /\ pd_pc = "sequential"
    /\ seq_idx <= Len(tasks)
    /\ tasks[seq_idx].raises # "none"
    /\ pd_pc' = "raised"
    /\ UNCHANGED <<tasks, worker_count, occurrences, total_hands_parsed,
                   total_shown_hands, total_actions, unyielded, seq_idx>>
    /\ UNCHANGED pdOthers

\* return occurrences, total_hands_parsed, total_shown_hands, total_actions
SequentialDone ==
    /\ pd_pc = "sequential"
    /\ seq_idx > Len(tasks)
    /\ pd_pc' = "returned"
    /\ UNCHANGED <<tasks, worker_count, occurrences, total_hands_parsed,
                   total_shown_hands, total_actions, unyielded, seq_idx>>
    /\ UNCHANGED pdOthers

DistributorNext ==
    \/ ReturnEmpty
    \/ EnterPool
    \/ EnterSequential
    \/ \E i \in 1..MaxTasks : PoolResult(i)
    \/ \E i \in 1..MaxTasks : PoolWorkerRaises(i)
    \/ PoolPermissionError
    \/ PoolDone
    \/ SequentialResult
    \/ SequentialWorkerRaises
    \/ SequentialDone


(***************************************************************************)
(* Query Service: _APIRequestHandler.do_GET, _parse_filters and            *)
(* RangeQueryService.query_ranges (range_query_service.py)                 *)
(*                                                                         *)
(* The warehouse is the table range_occurrences as a bag over a few        *)
(* exemplar rows.  A request is a path and the parameters parse_qs finds   *)
(* in the query string; parse_qs keeps no blank value, so a parameter that *)
(* is absent or blank reads as None, written Absent here.                  *)
(***************************************************************************)
Absent == ""

Row(cards, pot, bb, stack, ts, stack_bb) ==
    [position |-> "BTN", stage |-> "preflop", action |-> "raise", cards |-> cards,
     pot_bucket |-> pot, bb_bucket |-> bb, stack_bucket |-> stack,
     tournament_stage |-> ts, stack_size_bb |-> stack_bb,
     player |-> "hero", tournament_id |-> "4001"]
RowKinds ==
    <<Row("AA", "OPEN", "3BB", "20-30BB", "start", 25),
      Row("AKs", "OPEN", "MINRAISE", "10-20BB", "bubble", 15),
      Row("AKs", "2x", "3BB", "20-30BB", "start", 25)>>

RECURSIVE BagSize(_, _)
\* the number of rows of the bag w among the kinds in K
BagSize(w, K) ==
    IF K = {} THEN 0
    ELSE LET k == CHOOSE x \in K : TRUE IN w[k] + BagSize(w, K \ {k})

Warehouses ==
    {w \in [DOMAIN RowKinds -> 0..MaxRows] : BagSize(w, DOMAIN RowKinds) <= MaxRows}

\* The parameters of a /ranges request that the model varies; the other equality
\* filters (tournament_stage, bb_bucket, stack_bucket, player, tournament_id) go
\* through the same code as pot_bucket and cards and stay absent.
RangesRequests ==
    [path : {"/ranges"}, position : {Absent, "BTN"}, stage : {Absent, "preflop"},
     action : {Absent, "raise"}, tournament_stage : {Absent}, pot_bucket : {Absent, "OPEN"},
     bb_bucket : {Absent}, stack_bucket : {Absent}, player : {Absent},
     tournament_id : {Absent}, stack_bb_min : {Absent, "20", "abc"},
     stack_bb_max : {Absent, "20", "abc"}, cards : {Absent},
     limit : {Absent, "0", "1", "2", "1.5"}]
PlainRequest(path, action) ==
    [path |-> path, position |-> "BTN", stage |-> "preflop", action |-> action,
     tournament_stage |-> Absent, pot_bucket |-> Absent, bb_bucket |-> Absent,
     stack_bucket |-> Absent, player |-> Absent, tournament_id |-> Absent,
     stack_bb_min |-> Absent, stack_bb_max |-> Absent, cards |-> Absent, limit |-> Absent]
\* Input family 1: one request with any of the parameters, over any warehouse.
SingleRequests == RangesRequests \cup {PlainRequest("/health", "raise"),
                                       PlainRequest("/favicon.ico", "raise")}
\* Input family 2: several requests in flight at once, over one warehouse.
ConcurrentRequests == {PlainRequest("/ranges", "raise"), PlainRequest("/ranges", Absent),
                       PlainRequest("/health", "raise")}
ConcurrentWarehouse == [k \in DOMAIN RowKinds |-> IF k = 1 THEN 1 ELSE 0]

\* RangeQueryFilters(): every field None
NoFilters ==
    [position |-> Absent, stage |-> Absent, action |-> Absent, tournament_stage |-> Absent,
     pot_bucket |-> Absent, bb_bucket |-> Absent, stack_bucket |-> Absent, player |-> Absent,
     tournament_id |-> Absent, stack_bb_min |-> None, stack_bb_max |-> None,
     cards |-> Absent, limit |-> None]

\* float(value): the decimal strings of the model and what they convert to.
ParseFloat(value) ==
    CASE value = "20" -> [ok |-> TRUE, value |-> 20]
      [] value = "15" -> [ok |-> TRUE, value |-> 15]
      [] OTHER -> [ok |-> FALSE, value |-> None]
\* int(value): digits only; "1.5" is no integer literal.
ParseInt(value) ==
    CASE value = "0" -> [ok |-> TRUE, value |-> 0]
      [] value = "1" -> [ok |-> TRUE, value |-> 1]
      [] value = "2" -> [ok |-> TRUE, value |-> 2]
      [] OTHER -> [ok |-> FALSE, value |-> None]

ValueError(msg) == [type |-> "ValueError", msg |-> msg]
RequiredMsg == <<"position, stage, and action filters are required">>
InvalidFloatMsg(name, value) == <<"Invalid float for ", name, ": ", value>>
InvalidIntMsg(name, value) == <<"Invalid integer for ", name, ": ", value>>
\* what a failing connect or execute raises: a duckdb.Error, no ValueError
DbError == [type |-> "duckdb.Error", msg |-> <<"IO Error">>]

\* _parse_filters: the fields are converted in the order of the constructor call;
\* the first malformed number raises ValueError.
_parse_filters(query) ==
    LET min == ParseFloat(query.stack_bb_min)
        max == ParseFloat(query.stack_bb_max)
        lim == ParseInt(query.limit)
    IN  IF query.stack_bb_min # Absent /\ ~min.ok
        THEN [raised |-> TRUE,
              exc |-> ValueError(InvalidFloatMsg("stack_bb_min", query.stack_bb_min))]
        ELSE IF query.stack_bb_max # Absent /\ ~max.ok
        THEN [raised |-> TRUE,
              exc |-> ValueError(InvalidFloatMsg("stack_bb_max", query.stack_bb_max))]
        ELSE IF query.limit # Absent /\ ~lim.ok
        THEN [raised |-> TRUE, exc |-> ValueError(InvalidIntMsg("limit", query.limit))]
        ELSE [raised |-> FALSE,
              filters |->
                [position |-> query.position, stage |-> query.stage,
                 action |-> query.action, tournament_stage |-> query.tournament_stage,
                 pot_bucket |-> query.pot_bucket, bb_bucket |-> query.bb_bucket,
                 stack_bucket |-> query.stack_bucket, player |-> query.player,
                 tournament_id |-> query.tournament_id,
                 stack_bb_min |-> IF query.stack_bb_min = Absent THEN None ELSE min.value,
                 stack_bb_max |-> IF query.stack_bb_max = Absent THEN None ELSE max.value,
                 cards |-> query.cards,
                 limit |-> IF query.limit = Absent THEN None ELSE lim.value]]

\* Mutant of RequiredPresent: one of the three filters is enough.
RequiredPresentAny(f) == f.position # Absent \/ f.stage # Absent \/ f.action # Absent

\* filters.position and filters.stage and filters.action
RequiredPresent(f) == f.position # Absent /\ f.stage # Absent /\ f.action # Absent

\* _build_where: an equality predicate per truthy filter, a range predicate per
\* stack bound that is not None; the row satisfies the WHERE clause.
EqColumns == {"position", "stage", "action", "tournament_stage", "pot_bucket",
              "bb_bucket", "stack_bucket", "player", "tournament_id", "cards"}
_build_where(f, row) ==
    /\ \A c \in EqColumns : f[c] # Absent => row[c] = f[c]
    /\ f.stack_bb_min # None => row.stack_size_bb >= f.stack_bb_min
    /\ f.stack_bb_max # None => row.stack_size_bb <= f.stack_bb_max

\* COUNT(*) over the rows of the warehouse that satisfy the WHERE clause and P.
RowCount(w, f, P(_)) ==
    BagSize(w, {k \in DOMAIN RowKinds : _build_where(f, RowKinds[k]) /\ P(RowKinds[k])})

\* GROUP BY ro.cards: one (hand, count) row per combo.
GroupByCards(w, f) ==
    LET hands == {RowKinds[k].cards : k \in {j \in DOMAIN RowKinds :
                                               w[j] > 0 /\ _build_where(f, RowKinds[j])}}
    IN  {[hand |-> h, count |-> LET P(row) == row.cards = h IN RowCount(w, f, P)] :
            h \in hands}

Min(a, b) == IF a < b THEN a ELSE b

\* _query_all: ORDER BY count DESC and, when limit is truthy, LIMIT ?: the result
\* sets the engine may return (ties between equal counts fall either way).
_query_all(w, f) ==
    LET groups == GroupByCards(w, f)
    IN  IF f.limit # None /\ f.limit # 0
        THEN {S \in SUBSET groups :
                /\ Cardinality(S) = Min(f.limit, Cardinality(groups))
                /\ \A a \in S : \A b \in groups \ S : a.count >= b.count}
        ELSE {groups}

\* COALESCE(ro.<column>, default)
Coalesce(value, default) == IF value = Absent THEN default ELSE value

\* _query_bucket: GROUP BY bucket, ro.cards.
_query_bucket(w, f, column, default) ==
    LET live == {k \in DOMAIN RowKinds : w[k] > 0 /\ _build_where(f, RowKinds[k])}
        keys == {<<Coalesce(RowKinds[k][column], default), RowKinds[k].cards>> : k \in live}
    IN  {[bucket |-> key[1], hand |-> key[2],
          count |-> LET P(row) == /\ Coalesce(row[column], default) = key[1]
                                  /\ row.cards = key[2]
                    IN  RowCount(w, f, P)] : key \in keys}

RECURSIVE SumCounts(_)
SumCounts(rs) ==
    IF rs = {} THEN 0
    ELSE LET r == CHOOSE x \in rs : TRUE IN r.count + SumCounts(rs \ {r})

\* Mutant of build_summary: total_instances counts the rows instead of summing them.
build_summary_row_total(rs) ==
    [hands |-> [h \in {r.hand : r \in rs} |->
                   [count |-> (CHOOSE r \in rs : r.hand = h).count]],
     total_instances |-> Cardinality(rs),
     unique_combos |-> Cardinality(rs)]

\* Mutant of build_summary: unique_combos counts the instances instead of the rows.
build_summary_combos_total(rs) ==
    [hands |-> [h \in {r.hand : r \in rs} |->
                   [count |-> (CHOOSE r \in rs : r.hand = h).count]],
     total_instances |-> SumCounts(rs),
     unique_combos |-> SumCounts(rs)]

\* build_summary: the counts per hand, their sum and the number of rows (the two
\* percentage fields are derived from these and are not modelled).
build_summary(rs) ==
    [hands |-> [h \in {r.hand : r \in rs} |->
                   [count |-> (CHOOSE r \in rs : r.hand = h).count]],
     total_instances |-> SumCounts(rs),
     unique_combos |-> Cardinality(rs)]

\* _group_bucket_rows: bucket -> summary of the bucket's (hand, count) rows.
_group_bucket_rows(rs) ==
    [b \in {r.bucket : r \in rs} |->
        build_summary({[hand |-> r.hand, count |-> r.count] : r \in {x \in rs : x.bucket = b}})]

\* The dictionary query_ranges returns.
Payload(f, fetched) ==
    [filters |-> f,
     all |-> build_summary(fetched.all_rows),
     by_pot_size |-> _group_bucket_rows(fetched.pot_rows),
     by_bb_size |-> _group_bucket_rows(fetched.bb_rows),
     by_stack_bucket |-> _group_bucket_rows(fetched.stack_rows),
     by_tournament_stage |-> _group_bucket_rows(fetched.tournament_rows)]

NoRows == [all_rows |-> {}, pot_rows |-> {}, bb_rows |-> {}, stack_rows |-> {},
           tournament_rows |-> {}]

\* Mutant of StatusFor: every exception is answered like a ValueError.
StatusForAlwaysBadRequest(exc) == 400

\* except ValueError -> 400; except Exception -> 500
StatusFor(exc) == IF exc.type = "ValueError" THEN 400 ELSE 500

\* Mutant of with_exit: the connection is not closed when the block is left.
with_exit_leak(conns, c) == conns

\* with duckdb.connect(...) as conn: leaving the block, by return or by exception,
\* closes the connection.
with_exit(conns, c) == conns \ {c}

QueryInit ==
    /\ \/ /\ warehouse \in Warehouses
          /\ requests \in {<<q>> : q \in SingleRequests}
       \/ /\ warehouse = ConcurrentWarehouse
          /\ requests \in {s \in SeqsUpTo(ConcurrentRequests, MaxClients) : Len(s) >= 2}
    /\ rq_pc = [r \in DOMAIN requests |-> "do_GET"]
    /\ filters = [r \in DOMAIN requests |-> NoFilters]
    /\ conn = [r \in DOMAIN requests |-> 0]
    /\ open_conns = {}
    /\ next_conn = 1
    /\ rows = [r \in DOMAIN requests |-> NoRows]
    /\ query_ranges_exit = [r \in DOMAIN requests |-> "not called"]
    /\ responses = [r \in DOMAIN requests |-> <<>>]

QueryIdle ==
    /\ warehouse = <<>> /\ requests = <<>> /\ rq_pc = <<>> /\ filters = <<>>
    /\ conn = <<>> /\ open_conns = {} /\ next_conn = 0 /\ rows = <<>>
    /\ query_ranges_exit = <<>> /\ responses = <<>>

\* _send_response(status_code, payload): one response goes out on the request's socket.
_send_response(r, status, body) ==
    responses' = [responses EXCEPT ![r] = Append(@, [status |-> status, body |-> body])]

\* do_GET, up to the try block: /health and unknown paths are answered at once.
Route(r) ==
    /\ r \in DOMAIN requests
    /\ rq_pc[r] = "do_GET"
    /\ IF requests[r].path = "/health"
       THEN _send_response(r, 200, [status |-> "ok"]) /\ rq_pc' = [rq_pc EXCEPT ![r] = "done"]
       ELSE IF requests[r].path # "/ranges"
       THEN /\ _send_response(r, 404, [error |-> <<"not found">>])
            /\ rq_pc' = [rq_pc EXCEPT ![r] = "done"]
       ELSE /\ rq_pc' = [rq_pc EXCEPT ![r] = "_parse_filters"]
            /\ UNCHANGED responses
    /\ UNCHANGED <<warehouse, requests, filters, conn, open_conns, next_conn, rows,
                   query_ranges_exit>>
    /\ UNCHANGED rqOthers

\* filters = self._parse_filters(parse_qs(parsed.query)); a ValueError is answered 400.
ParseFilters(r) ==
    /\ r \in DOMAIN requests
    /\ rq_pc[r] = "_parse_filters"
    /\ LET parsed == _parse_filters(requests[r])
       IN  IF parsed.raised
           THEN /\ _send_response(r, StatusFor(parsed.exc), [error |-> parsed.exc.msg])
                /\ rq_pc' = [rq_pc EXCEPT ![r] = "done"]
                /\ UNCHANGED filters
           ELSE /\ filters' = [filters EXCEPT ![r] = parsed.filters]
                /\ rq_pc' = [rq_pc EXCEPT ![r] = "query_ranges"]
                /\ UNCHANGED responses
    /\ UNCHANGED <<warehouse, requests, conn, open_conns, next_conn, rows,
                   query_ranges_exit>>
    /\ UNCHANGED rqOthers

\* query_ranges, first statement: the three required filters, else ValueError, which
\* do_GET answers.
Validate(r) ==
    /\ r \in DOMAIN requests
    /\ rq_pc[r] = "query_ranges"
    /\ IF RequiredPresent(filters[r])
       THEN /\ rq_pc' = [rq_pc EXCEPT ![r] = "connect"]
            /\ query_ranges_exit' = [query_ranges_exit EXCEPT ![r] = "running"]
            /\ UNCHANGED responses
       ELSE /\ query_ranges_exit' = [query_ranges_exit EXCEPT ![r] = "ValueError"]
            /\ _send_response(r, StatusFor(ValueError(RequiredMsg)), [error |-> RequiredMsg])
            /\ rq_pc' = [rq_pc EXCEPT ![r] = "done"]
    /\ UNCHANGED <<warehouse, requests, filters, conn, open_conns, next_conn, rows>>
    /\ UNCHANGED rqOthers

\* duckdb.connect(...): a new connection, entered as the with block's conn.
Connect(r) ==
    /\ r \in DOMAIN requests
    /\ rq_pc[r] = "connect"
    /\ conn' = [conn EXCEPT ![r] = next_conn]
    /\ open_conns' = open_conns \cup {next_conn}
    /\ next_conn' = next_conn + 1
    /\ rq_pc' = [rq_pc EXCEPT ![r] = "_query_all"]
    /\ UNCHANGED <<warehouse, requests, filters, rows, query_ranges_exit, responses>>
    /\ UNCHANGED rqOthers

\* duckdb.connect raises: no connection exists; do_GET answers 500.
ConnectFails(r) ==
    /\ r \in DOMAIN requests
    /\ rq_pc[r] = "connect"
    /\ query_ranges_exit' = [query_ranges_exit EXCEPT ![r] = DbError.type]
    /\ _send_response(r, StatusFor(DbError), [error |-> DbError.msg])
    /\ rq_pc' = [rq_pc EXCEPT ![r] = "done"]
    /\ UNCHANGED <<warehouse, requests, filters, conn, open_conns, next_conn, rows>>
    /\ UNCHANGED rqOthers

\* all_rows = self._query_all(conn, where_clause, params, filters.limit)
QueryAll(r) ==
    /\ r \in DOMAIN requests
    /\ rq_pc[r] = "_query_all"
    /\ \E fetched \in _query_all(warehouse, filters[r]) :
          rows' = [rows EXCEPT ![r].all_rows = fetched]
    /\ rq_pc' = [rq_pc EXCEPT ![r] = "pot_rows"]
    /\ UNCHANGED <<warehouse, requests, filters, conn, open_conns, next_conn,
                   query_ranges_exit, responses>>
    /\ UNCHANGED rqOthers

\* The four _query_bucket calls in their order: the column, the COALESCE default
\* and the call that follows.
BucketQueries ==
    [pot_rows |-> [column |-> "pot_bucket", default |-> "N/A", next |-> "bb_rows"],
     bb_rows |-> [column |-> "bb_bucket", default |-> "N/A", next |-> "stack_rows"],
     stack_rows |-> [column |-> "stack_bucket", default |-> "UNKNOWN",
                     next |-> "tournament_rows"],
     tournament_rows |-> [column |-> "tournament_stage", default |-> "UNKNOWN",
                          next |-> "return"]]

\* One _query_bucket call; after the last one the with block is left and the
\* connection closed.
QueryBucket(r) ==
    /\ r \in DOMAIN requests
    /\ rq_pc[r] \in DOMAIN BucketQueries
    /\ LET q == BucketQueries[rq_pc[r]]
       IN  /\ rows' = [rows EXCEPT ![r][rq_pc[r]] =
                          _query_bucket(warehouse, filters[r], q.column, q.default)]
           /\ rq_pc' = [rq_pc EXCEPT ![r] = q.next]
           /\ open_conns' = IF q.next = "return" THEN with_exit(open_conns, conn[r])
                            ELSE open_conns
    /\ UNCHANGED <<warehouse, requests, filters, conn, next_conn, query_ranges_exit,
                   responses>>
    /\ UNCHANGED rqOthers

\* conn.execute raises in any of the five queries: the with block closes the
\* connection, the exception leaves query_ranges and do_GET answers it.
QueryFails(r) ==
    /\ r \in DOMAIN requests
    /\ rq_pc[r] \in {"_query_all"} \cup DOMAIN BucketQueries
    /\ open_conns' = with_exit(open_conns, conn[r])
    /\ query_ranges_exit' = [query_ranges_exit EXCEPT ![r] = DbError.type]
    /\ _send_response(r, StatusFor(DbError), [error |-> DbError.msg])
    /\ rq_pc' = [rq_pc EXCEPT ![r] = "done"]
    /\ UNCHANGED <<warehouse, requests, filters, conn, next_conn, rows>>
    /\ UNCHANGED rqOthers

\* query_ranges returns its dictionary and do_GET sends it with status 200.
SendResult(r) ==
    /\ r \in DOMAIN requests
    /\ rq_pc[r] = "return"
    /\ query_ranges_exit' = [query_ranges_exit EXCEPT ![r] = "returned"]
    /\ _send_response(r, 200, Payload(filters[r], rows[r]))
    /\ rq_pc' = [rq_pc EXCEPT ![r] = "done"]
    /\ UNCHANGED <<warehouse, requests, filters, conn, open_conns, next_conn, rows>>
    /\ UNCHANGED rqOthers

QueryNext ==
    \/ \E r \in 1..MaxClients : Route(r)
    \/ \E r \in 1..MaxClients : ParseFilters(r)
    \/ \E r \in 1..MaxClients : Validate(r)
    \/ \E r \in 1..MaxClients : Connect(r)
    \/ \E r \in 1..MaxClients : ConnectFails(r)
    \/ \E r \in 1..MaxClients : QueryAll(r)
    \/ \E r \in 1..MaxClients : QueryBucket(r)
    \/ \E r \in 1..MaxClients : QueryFails(r)
    \/ \E r \in 1..MaxClients : SendResult(r)


(***************************************************************************)
(* Card Normalizer: HandHistoryParser.normalize_card_notation              *)
(* A string is the sequence of its characters; cards[0] of the code is     *)
(* cards[1] here.                                                          *)
(***************************************************************************)
rank_order == <<"A", "K", "Q", "J", "T", "9", "8", "7", "6", "5", "4", "3", "2">>
Ranks == {rank_order[i] : i \in DOMAIN rank_order}
Suits == {"c", "d", "h", "s"}
\* The shown cards of a hand history: rank, suit, a blank, rank, suit.
TwoCardTexts ==
    {<<r1, s1, " ", r2, s2>> : r1 \in Ranks, s1 \in Suits, r2 \in Ranks, s2 \in Suits}
\* Other texts between the brackets: nothing, one card, no blank, a rank that is no
\* rank, a ten written with two digits.
OtherCardTexts ==
    {<<>>, <<"A", "c">>, <<"A", "c", "T", "h">>, <<"X", "c", " ", "T", "h">>,
     <<"A", "c", " ", "1", "0", "h">>}

\* rank_order.index(ch): the 0-based index, or ValueError when ch is no rank.
ValueErrorIndex == -1
index(ch) ==
    IF ch \in Ranks THEN (CHOOSE i \in DOMAIN rank_order : rank_order[i] = ch) - 1
    ELSE ValueErrorIndex

\* Mutant of SortByRank: the cards are left in the order shown.
SortByRankNever(card1, card2) == <<card1, card2>>

\* if rank_order.index(card1_rank) > rank_order.index(card2_rank): swap the cards.
SortByRank(card1, card2) ==
    IF index(card1.rank) > index(card2.rank) THEN <<card2, card1>> ELSE <<card1, card2>>

\* Mutant of Suffix: the pocket pair is not recognised.
SuffixWithoutPair(card1, card2) ==
    IF card1.suit = card2.suit THEN <<"s">> ELSE <<"o">>

\* The suffix chain: suited is tested first, the pocket pair second.
Suffix(card1, card2) ==
    IF card1.suit = card2.suit THEN <<"s">>
    ELSE IF card1.rank = card2.rank THEN <<>>
    ELSE <<"o">>

normalize_card_notation(text) ==
    IF Len(text) < 4 THEN <<>>
    ELSE IF Len(text) < 5 THEN <<>>                     \* cards[4]: IndexError
    ELSE LET card1 == [rank |-> text[1], suit |-> text[2]]
             card2 == [rank |-> text[4], suit |-> text[5]]
         IN  IF index(card1.rank) = ValueErrorIndex \/ index(card2.rank) = ValueErrorIndex
             THEN <<>>                                   \* ValueError
             ELSE LET sorted == SortByRank(card1, card2)
                  IN  <<sorted[1].rank, sorted[2].rank>> \o Suffix(sorted[1], sorted[2])

NotCalled == <<"not called">>
CardsInit ==
    /\ cards_text \in TwoCardTexts \cup OtherCardTexts
    /\ normalized = NotCalled
CardsIdle == cards_text = <<>> /\ normalized = <<"idle">>

\* One call of normalize_card_notation on the drawn text.
NormalizeCards ==
    /\ normalized = NotCalled
    /\ normalized' = normalize_card_notation(cards_text)
    /\ UNCHANGED cards_text
    /\ UNCHANGED cdOthers

CardsNext == NormalizeCards

(***************************************************************************)
(* Bet sizing: the HandAction fields parse_single_hand computes from an    *)
(* amount and the running pot, and RangeAnalyzer.categorize_bet_size as    *)
(* add_hand calls it.  Chip amounts are whole numbers; a quotient of two   *)
(* of them is kept as the fraction num/den, so that its comparison with a  *)
(* threshold written in hundredths is exact.                               *)
(***************************************************************************)
ActionTypes == {"raise", "bet", "call", "fold", "check"}
Chips == {1, 32, 33, 34, 49, 50, 74, 75, 99, 100, 149, 150, 199, 200, 299, 300, 450}
Pots == {0, 3, 100, 150}

\* Mutant of pot_odds: the pot relative to the amount.
pot_odds_inverted(amount, pot) ==
    IF pot > 0 THEN [num |-> pot, den |-> amount] ELSE [num |-> 0, den |-> 1]
\* pot_odds = amount / pot_size if pot_size > 0 else 0
pot_odds(amount, pot) ==
    IF pot > 0 THEN [num |-> amount, den |-> pot] ELSE [num |-> 0, den |-> 1]

\* Mutant of Below: the thresholds belong to the bucket under them.
BelowOrAt(ratio, hundredths) == ratio.num * 100 <= hundredths * ratio.den
\* ratio < hundredths / 100
Below(ratio, hundredths) == ratio.num * 100 < hundredths * ratio.den

\* The HandAction of a line: amount is 0.0 unless the action is a raise, bet or call.
HandAction(player, action_type, amount, position_name, stage, pot) ==
    LET chips == IF action_type \in {"raise", "bet", "call"} THEN amount ELSE 0
    IN  [player |-> player, action_type |-> action_type, amount |-> chips,
         position |-> position_name, stage |-> stage, pot_before |-> pot,
         pot_odds |-> pot_odds(chips, pot)]

categorize_bet_size(action) ==
    IF action.action_type \notin {"raise", "bet"} THEN "N/A"
    ELSE IF action.pot_before = 0 THEN "OPEN"
    ELSE LET ratio == action.pot_odds
         IN  IF Below(ratio, 33) THEN "<0.33x"
             ELSE IF Below(ratio, 50) THEN "0.33x"
             ELSE IF Below(ratio, 75) THEN "0.5x"
             ELSE IF Below(ratio, 100) THEN "0.75x"
             ELSE IF Below(ratio, 150) THEN "1x"
             ELSE IF Below(ratio, 200) THEN "1.5x"
             ELSE IF Below(ratio, 300) THEN "2x"
             ELSE "3x+"

\* add_hand: pot_category, computed for raises and bets only.
pot_category(action) ==
    IF action.action_type \in {"raise", "bet"} THEN categorize_bet_size(action) ELSE "N/A"

SizingInit ==
    /\ bet_type \in ActionTypes
    /\ bet_amounts \in Chips \X Chips
    /\ bet_pot \in Pots
    /\ bet_actions = <<>>
    /\ pot_categories = <<>>
SizingIdle ==
    /\ bet_type = "idle" /\ bet_amounts = <<>> /\ bet_pot = 0
    /\ bet_actions = <<>> /\ pot_categories = <<>>

\* parse_single_hand builds the HandAction of each of the two lines.
BuildActions ==
    /\ bet_amounts # <<>>
    /\ bet_actions = <<>>
    /\ bet_actions' = [k \in 1..2 |->
                          HandAction("hero", bet_type, bet_amounts[k], "BTN", "flop", bet_pot)]
    /\ UNCHANGED <<bet_type, bet_amounts, bet_pot, pot_categories>>
    /\ UNCHANGED szOthers

\* add_hand computes the pot category of the next action.
Categorize ==
    /\ Len(pot_categories) < Len(bet_actions)
    /\ pot_categories' =
           Append(pot_categories, pot_category(bet_actions[Len(pot_categories) + 1]))
    /\ UNCHANGED <<bet_type, bet_amounts, bet_pot, bet_actions>>
    /\ UNCHANGED szOthers

SizingNext == BuildActions \/ Categorize

(***************************************************************************)
(* Hand parser: HandHistoryParser.parse_single_hand, followed by the       *)
(* worker's loop calling RangeAnalyzer.add_hand on each PlayerHand.        *)
(* A hand's text is kept as what the patterns find in it:                  *)
(*   button   the seat of BUTTON_PATTERN's match, None without one         *)
(*   seats    SEAT_PATTERN's matches, in text order                        *)
(*   lines    the lines of the betting rounds, in text order               *)
(*   summary  SHOWN_PATTERN's matches, in text order                       *)
(***************************************************************************)
\* A line: the street STAGE_PATTERN finds in it ("" when none) and, for each
\* action pattern that matches it, the player and the amount captured.
MarkerLine(street) == [marker |-> street, hits |-> <<>>]
\* Mutant of lower: every street comes out as the flop.
lower_flop(street) == "flop"
\* Mutant of pot_after: the running pot is never updated.
pot_after_unchanged(pot, action) == pot
ActionLine(player, action_type, amount) ==
    [marker |-> "", hits |-> (action_type :> [player |-> player, amount |-> amount])]
\* ACTION_PATTERNS, in the order they are tried.
ACTION_PATTERNS == <<"raise", "bet", "call", "fold", "check">>
\* stage_match.group(1).lower()
lower(street) == CASE street = "FLOP" -> "flop" [] street = "TURN" -> "turn"
                   [] street = "RIVER" -> "river"

Seat(n, name) == [seat |-> n, name |-> name, chips |-> 1500]
SixSeats == [n \in 1..6 |-> Seat(n, <<"p", n>>)]
TwoSeats == <<Seat(2, <<"p", 2>>), Seat(4, <<"p", 4>>)>>
Stranger == <<"x">>
LineKinds ==
    {ActionLine(<<"p", 4>>, "raise", 300), ActionLine(<<"p", 2>>, "call", 300),
     ActionLine(<<"p", 4>>, "check", 0), ActionLine(Stranger, "bet", 50),
     MarkerLine("FLOP")}
\* Lines on which two action patterns match (two "name: verb" texts on one line),
\* a second street marker, and a marker line that also carries an action text.
TwoHitLine(first_player, first_type, first_amount, player, action_type, amount) ==
    [marker |-> "",
     hits |-> (first_type :> [player |-> first_player, amount |-> first_amount])
              @@ (action_type :> [player |-> player, amount |-> amount])]
MoreLineKinds ==
    LineKinds
    \cup {TwoHitLine(Stranger, "raise", 300, <<"p", 4>>, "fold", 0),
          TwoHitLine(<<"p", 4>>, "bet", 50, <<"p", 2>>, "call", 50),
          MarkerLine("TURN"),
          [marker |-> "RIVER",
           hits |-> ("check" :> [player |-> <<"p", 2>>, amount |-> 0])]}
Shown(name, text) == [name |-> name, cards |-> text]
AceTen == <<"A", "c", " ", "T", "h">>
Sevens == <<"7", "h", " ", "7", "d">>
ShownLines ==
    {<<>>,
     <<Shown(<<"p", 4>>, AceTen), Shown(<<"p", 2>>, Sevens)>>,
     <<Shown(<<"p", 4>>, AceTen)>>,
     <<Shown(<<"p", 4>>, <<"A", "c">>)>>,
     <<Shown(Stranger, AceTen)>>,
     <<Shown(<<"p", 2>>, Sevens), Shown(<<"p", 2>>, Sevens)>>}
\* Input family 1: hands with or without a button line, six or two players and
\* every summary; family 2: the six-handed table with every kind of line.
Hands ==
    [button : {2, None}, seats : {SixSeats, TwoSeats},
     lines : SeqsUpTo(LineKinds, MaxLines), summary : ShownLines]
    \cup [button : {2}, seats : {SixSeats},
          lines : SeqsUpTo(MoreLineKinds, MaxLines),
          summary : {<<Shown(<<"p", 4>>, AceTen), Shown(<<"p", 2>>, Sevens)>>}]

\* len(hand_text.strip().split("\n")): the header, the button line, the seats,
\* the betting lines and the summary lines.
LineCount(h) ==
    1 + (IF h.button # None THEN 1 ELSE 0) + Len(h.seats) + Len(h.lines) + Len(h.summary)

\* players[player_name] = {"seat": ..., "chips": ...}: a later match of a name
\* replaces an earlier one.
Players(seats) ==
    [name \in {seats[i].name : i \in DOMAIN seats} |->
        LET last == CHOOSE i \in DOMAIN seats :
                        /\ seats[i].name = name
                        /\ \A j \in DOMAIN seats : seats[j].name = name => j <= i
        IN  [seat |-> seats[last].seat, chips |-> seats[last].chips]]

\* The first pattern, in order, that matches the line with a seated player; 0 when
\* there is none (a match with an unknown player moves on to the next pattern).
FirstPattern(line, seated) ==
    LET hit == {i \in DOMAIN ACTION_PATTERNS :
                    /\ ACTION_PATTERNS[i] \in DOMAIN line.hits
                    /\ line.hits[ACTION_PATTERNS[i]].player \in seated}
    IN  IF hit = {} THEN 0 ELSE CHOOSE i \in hit : \A j \in hit : i <= j

\* if action_type in ["raise", "bet", "call"]: pot_size += amount
pot_after(pot, action) ==
    IF action.action_type \in {"raise", "bet", "call"} THEN pot + action.amount ELSE pot

PlayerHand(player, text, position_name, actions) ==
    [player |-> player, cards |-> text, position |-> position_name, actions |-> actions]

\* The RangeOccurrence add_hand builds for one action of a PlayerHand.
RangeOccurrence(player_hand, action) ==
    [player |-> action.player,
     position |-> IF action.position # "" THEN action.position ELSE player_hand.position,
     stage |-> action.stage, action_type |-> action.action_type,
     cards |-> player_hand.cards, action_amount |-> action.amount,
     pot_before |-> action.pot_before, pot_bucket |-> pot_category(action),
     showdown |-> TRUE]

\* Mutant of add_hand: only the first action of the hand is recorded.
add_hand_first_action(player_hand) ==
    [k \in 1..(IF player_hand.actions = <<>> THEN 0 ELSE 1) |->
        RangeOccurrence(player_hand, player_hand.actions[k])]

\* add_hand: the occurrences appended for one PlayerHand, one per action.
add_hand(player_hand) ==
    [k \in 1..Len(player_hand.actions) |->
        RangeOccurrence(player_hand, player_hand.actions[k])]

HandInit ==
    /\ hand \in Hands
    /\ ph_pc = "start"
    /\ players = <<>> /\ line_idx = 1 /\ current_stage = "preflop" /\ pot_size = 0
    /\ actions_by_player = <<>>
    /\ shown_idx = 1 /\ shown_hands = <<>>
    /\ add_idx = 1 /\ analyzer_occurrences = <<>> /\ analyzer_shown_hands = 0
HandIdle ==
    /\ hand = <<>> /\ ph_pc = "idle"
    /\ players = <<>> /\ line_idx = 0 /\ current_stage = "" /\ pot_size = 0
    /\ actions_by_player = <<>>
    /\ shown_idx = 0 /\ shown_hands = <<>>
    /\ add_idx = 0 /\ analyzer_occurrences = <<>> /\ analyzer_shown_hands = 0

\* Fewer than five lines, or no button line: return [].
DropHand ==
    /\ ph_pc = "start"
    /\ LineCount(hand) < 5 \/ hand.button = None
    /\ ph_pc' = "returned"
    /\ UNCHANGED <<hand, players, line_idx, current_stage, pot_size, actions_by_player,
                   shown_idx, shown_hands, add_idx, analyzer_occurrences,
                   analyzer_shown_hands>>
    /\ UNCHANGED phOthers

\* The button seat and the players dictionary are read.
ParseHeader ==
    /\ ph_pc = "start"
    /\ ~(LineCount(hand) < 5 \/ hand.button = None)
    /\ players' = Players(hand.seats)
    /\ actions_by_player' = [name \in DOMAIN Players(hand.seats) |-> <<>>]
    /\ ph_pc' = "lines"
    /\ UNCHANGED <<hand, line_idx, current_stage, pot_size, shown_idx, shown_hands,
                   add_idx, analyzer_occurrences, analyzer_shown_hands>>
    /\ UNCHANGED phOthers

\* for line in lines: one line is examined.
ParseLine ==
    /\ ph_pc = "lines"
    /\ line_idx <= Len(hand.lines)
    /\ LET line == hand.lines[line_idx]
           i == FirstPattern(line, DOMAIN players)
       IN  IF line.marker # ""
           THEN /\ current_stage' = lower(line.marker)
                /\ UNCHANGED <<pot_size, actions_by_player>>
           ELSE IF i = 0
           THEN UNCHANGED <<current_stage, pot_size, actions_by_player>>
           ELSE LET action_type == ACTION_PATTERNS[i]
                    player_name == line.hits[action_type].player
                    action == HandAction(player_name, action_type,
                                         line.hits[action_type].amount,
                                         get_position(players[player_name].seat,
                                                      hand.button,
                                                      Cardinality(DOMAIN players)),
                                         current_stage, pot_size)
                IN  /\ actions_by_player' =
                           [actions_by_player EXCEPT ![player_name] = Append(@, action)]
                    /\ pot_size' = pot_after(pot_size, action)
                    /\ UNCHANGED current_stage
    /\ line_idx' = line_idx + 1
    /\ UNCHANGED <<hand, ph_pc, players, shown_idx, shown_hands, add_idx,
                   analyzer_occurrences, analyzer_shown_hands>>
    /\ UNCHANGED phOthers

\* for match in SHOWN_PATTERN.finditer(hand_text): one match is examined.
ParseShown ==
    /\ ph_pc = "lines"
    /\ line_idx > Len(hand.lines)
    /\ shown_idx <= Len(hand.summary)
    /\ LET match == hand.summary[shown_idx]
           normalized_cards == normalize_card_notation(match.cards)
       IN  IF match.name \in DOMAIN players /\ normalized_cards # <<>>
           THEN shown_hands' =
                    Append(shown_hands,
                           PlayerHand(match.name, normalized_cards,
                                      get_position(players[match.name].seat, hand.button,
                                                   Cardinality(DOMAIN players)),
                                      actions_by_player[match.name]))
           ELSE UNCHANGED shown_hands
    /\ shown_idx' = shown_idx + 1
    /\ UNCHANGED <<hand, ph_pc, players, line_idx, current_stage, pot_size,
                   actions_by_player, add_idx, analyzer_occurrences, analyzer_shown_hands>>
    /\ UNCHANGED phOthers

\* return shown_hands
ReturnHand ==
    /\ ph_pc = "lines"
    /\ line_idx > Len(hand.lines)
    /\ shown_idx > Len(hand.summary)
    /\ ph_pc' = "returned"
    /\ UNCHANGED <<hand, players, line_idx, current_stage, pot_size, actions_by_player,
                   shown_idx, shown_hands, add_idx, analyzer_occurrences,
                   analyzer_shown_hands>>
    /\ UNCHANGED phOthers

\* for hand in shown_hands: analyzer.add_hand(hand)
AddHand ==
    /\ ph_pc = "returned"
    /\ add_idx <= Len(shown_hands)
    /\ analyzer_shown_hands' = analyzer_shown_hands + 1
    /\ analyzer_occurrences' = analyzer_occurrences \o add_hand(shown_hands[add_idx])
    /\ add_idx' = add_idx + 1
    /\ UNCHANGED <<hand, ph_pc, players, line_idx, current_stage, pot_size,
                   actions_by_player, shown_idx, shown_hands>>
    /\ UNCHANGED phOthers

HandNext == DropHand \/ ParseHeader \/ ParseLine \/ ParseShown \/ ReturnHand \/ AddHand

(***************************************************************************)
(* Warehouse exporter: RangeDatabaseExporter.export.                       *)
(* The occurrences of a list are told apart by their index in it, and a    *)
(* row of the table by the export that wrote it and that index.  Rows are  *)
(* appended to the batch in the order of the loop, so a batch is a run of  *)
(* consecutive indices, kept as its first index and its length; the table  *)
(* is the sequence of the batches inserted into it.                        *)
(***************************************************************************)
BATCH_SIZE == 200000
\* The lengths of the occurrence lists: around nothing, one batch and two batches.
ExportSizes ==
    {0, 1, 2, BATCH_SIZE - 1, BATCH_SIZE, BATCH_SIZE + 1, 2 * BATCH_SIZE,
     2 * BATCH_SIZE + 1}
INDEXES == <<"idx_range_key", "idx_range_buckets", "idx_range_stage">>

NoFile == [exists |-> FALSE, tables |-> <<>>]
EmptyTable == [batches |-> <<>>, indexes |-> <<>>]
Run(export, first, count) == [export |-> export, first |-> first, count |-> count]
\* What may sit at the path before the first export: nothing, or a warehouse of
\* an earlier program run that also holds a table of its own.
StaleFile ==
    [exists |-> TRUE,
     tables |-> ("range_occurrences" :> [batches |-> <<Run(0, 1, 2)>>, indexes |-> INDEXES])
                @@ ("notes" :> [batches |-> <<Run(0, 1, 1)>>, indexes |-> <<>>])]

\* Mutant of unlink: the file is left in place.
unlink_skipped(file) == file
\* self.db_path.unlink()
unlink(file) == NoFile

\* duckdb.connect(path): opens the database file, creating an empty one if absent.
duckdb_connect(file) == IF file.exists THEN file ELSE [exists |-> TRUE, tables |-> <<>>]

\* _create_schema: DROP TABLE IF EXISTS range_occurrences; CREATE TABLE ...
_create_schema(file) ==
    [file EXCEPT !.tables = ("range_occurrences" :> EmptyTable) @@ @]

_empty_batch == [first |-> 0, count |-> 0]
\* _append_to_batch, count times from the row at index first on.
_append_to_batch(b, first, count) ==
    IF b.count = 0 THEN [first |-> first, count |-> count]
    ELSE [b EXCEPT !.count = @ + count]

\* Mutant of _insert_batch: the batch replaces the rows of the table.
_insert_batch_overwriting(file, export, b) ==
    [file EXCEPT !.tables["range_occurrences"].batches = <<Run(export, b.first, b.count)>>]
\* _insert_batch: INSERT INTO range_occurrences SELECT * FROM occ_batch
_insert_batch(file, export, b) ==
    [file EXCEPT !.tables["range_occurrences"].batches =
                     Append(@, Run(export, b.first, b.count))]

ExportInit ==
    /\ exports \in SeqsUpTo(ExportSizes, MaxExports) \ {<<>>}
    /\ disk \in {NoFile, StaleFile}
    /\ export_idx = 1 /\ export_pc = "export"
    /\ occ_idx = 1 /\ batch = _empty_batch /\ batch_count = 0 /\ executed = <<>>
ExportIdle ==
    /\ exports = <<>> /\ disk = NoFile
    /\ export_idx = 0 /\ export_pc = "idle"
    /\ occ_idx = 0 /\ batch = _empty_batch /\ batch_count = 0 /\ executed = <<>>

\* if self.db_path.exists(): self.db_path.unlink()
UnlinkIfExists ==
    /\ export_pc = "export"
    /\ disk' = IF disk.exists THEN unlink(disk) ELSE disk
    /\ export_pc' = "connect"
    /\ UNCHANGED <<exports, export_idx, occ_idx, batch, batch_count, executed>>
    /\ UNCHANGED exOthers

\* conn = duckdb.connect(...); self._create_schema(conn)
CreateSchema ==
    /\ export_pc = "connect"
    /\ disk' = _create_schema(duckdb_connect(disk))
    /\ executed' = <<"CREATE TABLE">>
    /\ export_pc' = "_populate"
    /\ UNCHANGED <<exports, export_idx, occ_idx, batch, batch_count>>
    /\ UNCHANGED exOthers

\* _populate: if not occurrences: return
PopulateNothing ==
    /\ export_pc = "_populate"
    /\ exports[export_idx] = 0
    /\ export_pc' = "close"
    /\ UNCHANGED <<exports, disk, export_idx, occ_idx, batch, batch_count, executed>>
    /\ UNCHANGED exOthers

\* _populate: batch = self._empty_batch(); batch_count = 0
PopulateStart ==
    /\ export_pc = "_populate"
    /\ exports[export_idx] # 0
    /\ batch' = _empty_batch /\ batch_count' = 0 /\ occ_idx' = 1
    /\ export_pc' = "for occ"
    /\ UNCHANGED <<exports, disk, export_idx, executed>>
    /\ UNCHANGED exOthers

\* for occ in occurrences: the loop body runs until batch_count reaches BATCH_SIZE
\* or the list ends; a batch that has reached BATCH_SIZE is inserted and emptied.
AppendRows ==
    /\ export_pc = "for occ"
    /\ occ_idx <= exports[export_idx]
    /\ LET left == exports[export_idx] - occ_idx + 1
           room == BATCH_SIZE - batch_count
           count == IF left < room THEN left ELSE IF room < 1 THEN 1 ELSE room
           filled == _append_to_batch(batch, occ_idx, count)
       IN  /\ occ_idx' = occ_idx + count
           /\ IF batch_count + count >= BATCH_SIZE
              THEN /\ disk' = _insert_batch(disk, export_idx, filled)
                   /\ executed' = Append(executed, "INSERT")
                   /\ batch' = _empty_batch
                   /\ batch_count' = 0
              ELSE /\ batch' = filled
                   /\ batch_count' = batch_count + count
                   /\ UNCHANGED <<disk, executed>>
    /\ UNCHANGED <<exports, export_idx, export_pc>>
    /\ UNCHANGED exOthers

\* if batch["tournament_id"]: self._insert_batch(conn, batch)
FinalBatch ==
    /\ export_pc = "for occ"
    /\ occ_idx > exports[export_idx]
    /\ IF batch.count > 0
       THEN /\ disk' = _insert_batch(disk, export_idx, batch)
            /\ executed' = Append(executed, "INSERT")
       ELSE UNCHANGED <<disk, executed>>
    /\ export_pc' = "_create_indexes"
    /\ UNCHANGED <<exports, export_idx, occ_idx, batch, batch_count>>
    /\ UNCHANGED exOthers

\* _create_indexes: the three CREATE INDEX statements.
CreateIndexes ==
    /\ export_pc = "_create_indexes"
    /\ disk' = [disk EXCEPT !.tables["range_occurrences"].indexes = @ \o INDEXES]
    /\ executed' = executed \o [k \in DOMAIN INDEXES |-> "CREATE INDEX"]
    /\ export_pc' = "close"
    /\ UNCHANGED <<exports, export_idx, occ_idx, batch, batch_count>>
    /\ UNCHANGED exOthers

\* finally: conn.close(); export returns.
CloseAndReturn ==
    /\ export_pc = "close"
    /\ export_pc' = "returned"
    /\ UNCHANGED <<exports, disk, export_idx, occ_idx, batch, batch_count, executed>>
    /\ UNCHANGED exOthers

\* The next export to the same path begins.
ExportAgain ==
    /\ export_pc = "returned"
    /\ export_idx < Len(exports)
    /\ export_idx' = export_idx + 1
    /\ export_pc' = "export"
    /\ occ_idx' = 1 /\ batch' = _empty_batch /\ batch_count' = 0 /\ executed' = <<>>
    /\ UNCHANGED <<exports, disk>>
    /\ UNCHANGED exOthers

ExportNext ==
    \/ UnlinkIfExists \/ CreateSchema \/ PopulateNothing \/ PopulateStart
    \/ AppendRows \/ FinalBatch \/ CreateIndexes \/ CloseAndReturn \/ ExportAgain

(***************************************************************************)
(* Report Builder: RangeReportBuilder.generate_report for one cell         *)
(* (one position, stage and action), run twice over the same warehouse.    *)
(* The block holds the action line, the totals line without the median,    *)
(* and the pot size lines; the big blind and tournament stage lines are    *)
(* produced by the same _query_bucket and are left out.                    *)
(***************************************************************************)
Runs == 1..2
RANK_ORDER == <<"A", "K", "Q", "J", "T", "9", "8", "7", "6", "5", "4", "3", "2">>
POT_ORDER == <<"OPEN", "<0.33x", "0.33x", "0.5x", "0.75x", "1x", "1.5x", "2x", "3x+">>
DIGITS == <<"0", "1", "2", "3", "4", "5", "6", "7", "8", "9">>

\* The hands and pot buckets of the rows of the cell.
ReportHands == {<<"A", "A">>, <<"K", "K">>, <<"A", "K", "s">>, <<"A", "K", "o">>,
                <<"K", "Q", "s">>}
ReportRows == [cards : ReportHands, pot_bucket : {"OPEN", "1x"}]

\* _hand_rank: the sort key of a hand label.
_hand_rank(hand_label) ==
    IF Len(hand_label) = 2 THEN IndexOf(RANK_ORDER, hand_label[1]) * (-100)
    ELSE IndexOf(RANK_ORDER, hand_label[1]) * (-10) + IndexOf(RANK_ORDER, hand_label[2])

\* One step of Python's stable sort: the row goes behind every row whose key is
\* not larger than its own.
InsertByHandRank(acc, row) ==
    LET k == Cardinality({i \in 1..Len(acc) :
                             _hand_rank(acc[i].hand) <= _hand_rank(row.hand)})
    IN  SubSeq(acc, 1, k) \o <<row>> \o SubSeq(acc, k + 1, Len(acc))

RECURSIVE SortedFrom(_, _, _)
SortedFrom(fetched, i, acc) ==
    IF i > Len(fetched) THEN acc
    ELSE SortedFrom(fetched, i + 1, InsertByHandRank(acc, fetched[i]))

\* sorted(rows, key=lambda row: self._hand_rank(row[0])): ascending and stable.
sorted(fetched) == SortedFrom(fetched, 1, <<>>)

\* fetchall() on a GROUP BY without ORDER BY: the groups in any order.
Orders(groups) ==
    {s \in [1..Cardinality(groups) -> groups] :
        \A i, j \in 1..Cardinality(groups) : i # j => s[i] # s[j]}

\* SELECT cards, COUNT(*) ... GROUP BY cards
CombosGroups(table) ==
    {[hand |-> c, count |-> Cardinality({i \in DOMAIN table : table[i].cards = c})] :
        c \in {table[i].cards : i \in DOMAIN table}}

\* _query_combos: the lists the call may return, one per order of the engine.
_query_combos(table) == {sorted(fetched) : fetched \in Orders(CombosGroups(table))}

\* SELECT bucket, cards, COUNT(*) ... GROUP BY bucket, cards
BucketGroups(table) ==
    {[bucket |-> r.pot_bucket, hand |-> r.cards,
      count |-> Cardinality({i \in DOMAIN table : table[i] = r})] :
        r \in {table[i] : i \in DOMAIN table}}

\* bucket_map as the loops of _query_bucket leave it for one order of the engine.
BucketMap(fetched) ==
    [b \in {fetched[i].bucket : i \in DOMAIN fetched} |->
        LET InBucket(g) == g.bucket = b
            listed == SelectSeq(fetched, InBucket)
        IN  sorted([i \in DOMAIN listed |->
                       [hand |-> listed[i].hand, count |-> listed[i].count]])]

\* _query_bucket of the report builder: the maps the call may return.
report_query_bucket(table) == {BucketMap(fetched) : fetched \in Orders(BucketGroups(table))}

RECURSIVE str(_)
\* str(n) for a count.
str(n) == IF n < 10 THEN <<DIGITS[n + 1]>> ELSE str(n \div 10) \o <<DIGITS[(n % 10) + 1]>>

RECURSIVE SumOfCounts(_)
SumOfCounts(listed) ==
    IF listed = <<>> THEN 0 ELSE listed[1].count + SumOfCounts(Tail(listed))

RECURSIVE hands_str(_)
\* ", ".join(f"{hand}({count})" for hand, count in rows)
hands_str(listed) ==
    IF listed = <<>> THEN <<>>
    ELSE listed[1].hand \o <<"(">> \o str(listed[1].count) \o <<")">>
         \o (IF Len(listed) > 1 THEN <<", ">> ELSE <<>>) \o hands_str(Tail(listed))

\* _format_bucket_line, without the percentage.
_format_bucket_line(bucket, listed) ==
    <<"      ", bucket, ": ">> \o hands_str(listed)
        \o <<" [">> \o str(SumOfCounts(listed)) \o <<" instances]">>

RECURSIVE PotLines(_, _)
PotLines(by_pot_size, i) ==
    IF i > Len(POT_ORDER) THEN <<>>
    ELSE (IF POT_ORDER[i] \in DOMAIN by_pot_size
          THEN <<_format_bucket_line(POT_ORDER[i], by_pot_size[POT_ORDER[i]])>>
          ELSE <<>>) \o PotLines(by_pot_size, i + 1)

\* _format_action_block for a raise: the lines of the block.
_format_action_block(data) ==
    << <<"  RAISE: ">> \o hands_str(data.hands),
       <<"    Total: ">> \o str(Len(data.hands)) \o <<" unique combos, ">>
           \o str(SumOfCounts(data.hands)) \o <<" instances">>,
       <<"    By Pot Size:">> >>
    \o PotLines(data.by_pot_size, 1)

NoData == [hands |-> <<>>, by_pot_size |-> <<>>]

ReportInit ==
    /\ report_table \in SeqsUpTo(ReportRows, MaxReportRows)
    /\ report_pc = [r \in Runs |-> "combos"]
    /\ action_data = [r \in Runs |-> NoData]
    /\ report_lines = [r \in Runs |-> <<>>]
ReportIdle ==
    /\ report_table = <<>> /\ report_pc = <<>> /\ action_data = <<>>
    /\ report_lines = <<>>

\* _fetch_action_data: combos = self._query_combos(conn, base_params), not empty.
QueryCombos(r) ==
    /\ report_pc[r] = "combos"
    /\ \E combos \in _query_combos(report_table) :
          /\ combos # <<>>
          /\ action_data' = [action_data EXCEPT ![r].hands = combos]
    /\ report_pc' = [report_pc EXCEPT ![r] = "buckets"]
    /\ UNCHANGED <<report_table, report_lines>>
    /\ UNCHANGED rbOthers

\* if not combos: return None, and generate_report goes on: the cell has no block.
NoActionData(r) ==
    /\ report_pc[r] = "combos"
    /\ <<>> \in _query_combos(report_table)
    /\ report_pc' = [report_pc EXCEPT ![r] = "done"]
    /\ UNCHANGED <<report_table, action_data, report_lines>>
    /\ UNCHANGED rbOthers

\* "by_pot_size": self._query_bucket(conn, base_params, "COALESCE(pot_bucket, 'N/A')")
QueryPotBuckets(r) ==
    /\ report_pc[r] = "buckets"
    /\ \E bucket_map \in report_query_bucket(report_table) :
          action_data' = [action_data EXCEPT ![r].by_pot_size = bucket_map]
    /\ report_pc' = [report_pc EXCEPT ![r] = "format"]
    /\ UNCHANGED <<report_table, report_lines>>
    /\ UNCHANGED rbOthers

\* stage_lines.extend(self._format_action_block(action, action_data))
FormatActionBlock(r) ==
    /\ report_pc[r] = "format"
    /\ report_lines' = [report_lines EXCEPT ![r] = _format_action_block(action_data[r])]
    /\ report_pc' = [report_pc EXCEPT ![r] = "done"]
    /\ UNCHANGED <<report_table, action_data>>
    /\ UNCHANGED rbOthers

ReportNext ==
    \/ \E r \in Runs : QueryCombos(r)
    \/ \E r \in Runs : NoActionData(r)
    \/ \E r \in Runs : QueryPotBuckets(r)
    \/ \E r \in Runs : FormatActionBlock(r)

(***************************************************************************)
(* Big blind buckets: amount_bb as parse_single_hand computes it and       *)
(* RangeAnalyzer.categorize_bb_size as add_hand calls it.                  *)
(***************************************************************************)
Stages == {"preflop", "flop", "turn", "river"}
BlindChips == {19, 20, 39, 40, 49, 50, 59, 60, 79, 80, 99, 100, 119, 120, 199, 200, 250}
BlindSizes == {1, 20}

\* Mutant of amount_bb: the big blind relative to the amount.
amount_bb_inverted(amount, big_blind) ==
    IF big_blind > 0 /\ amount > 0 THEN [num |-> big_blind, den |-> amount]
    ELSE [num |-> 0, den |-> 1]
\* amount_bb = amount / bb_size if bb_size > 0 else 0
amount_bb(amount, big_blind) ==
    IF big_blind > 0 THEN [num |-> amount, den |-> big_blind] ELSE [num |-> 0, den |-> 1]

\* The fields of the HandAction that categorize_bb_size reads; amount is 0.0
\* unless the action is a raise, bet or call.
SizedAction(action_type, stage, amount, big_blind) ==
    LET chips == IF action_type \in {"raise", "bet", "call"} THEN amount ELSE 0
    IN  [action_type |-> action_type, stage |-> stage, amount |-> chips,
         bb_size |-> big_blind, amount_bb |-> amount_bb(chips, big_blind)]

categorize_bb_size(action) ==
    IF action.action_type \notin {"raise", "bet", "call"} THEN "N/A"
    ELSE LET bb == action.amount_bb
         IN  IF action.stage = "preflop"
             THEN IF action.action_type = "raise"
                  THEN IF Below(bb, 250) THEN "MINRAISE"
                       ELSE IF Below(bb, 300) THEN "2.5BB"
                       ELSE IF Below(bb, 400) THEN "3BB"
                       ELSE IF Below(bb, 600) THEN "4-5BB"
                       ELSE IF Below(bb, 1000) THEN "6-9BB"
                       ELSE "10BB+"
                  ELSE IF action.action_type = "call"
                  THEN IF Below(bb, 200) THEN "1BB_CALL"
                       ELSE IF Below(bb, 300) THEN "2BB_CALL"
                       ELSE IF Below(bb, 500) THEN "3-4BB_CALL"
                       ELSE "5BB+_CALL"
                  ELSE "OTHER"
             ELSE IF Below(bb, 100) THEN "<1BB"
                  ELSE IF Below(bb, 300) THEN "1-3BB"
                  ELSE IF Below(bb, 600) THEN "3-6BB"
                  ELSE IF Below(bb, 1000) THEN "6-10BB"
                  ELSE "10BB+"

\* add_hand: bb_category, computed for raises, bets and calls only.
bb_category(action) ==
    IF action.action_type \in {"raise", "bet", "call"} THEN categorize_bb_size(action)
    ELSE "N/A"

BlindsInit ==
    /\ blind_input \in [action_type : ActionTypes, stage : Stages,
                        amount : BlindChips, bb_size : BlindSizes]
    /\ blind_action = <<>>
    /\ bb_bucket = ""
BlindsIdle ==
    /\ blind_input = <<>> /\ blind_action = <<>> /\ bb_bucket = "idle"

\* parse_single_hand builds the HandAction of the line.
BuildSizedAction ==
    /\ blind_input # <<>>
    /\ blind_action = <<>>
    /\ blind_action' = SizedAction(blind_input.action_type, blind_input.stage,
                                   blind_input.amount, blind_input.bb_size)
    /\ UNCHANGED <<blind_input, bb_bucket>>
    /\ UNCHANGED bbOthers

\* add_hand computes the big blind category of the action.
CategorizeBlinds ==
    /\ blind_action # <<>>
    /\ bb_bucket = ""
    /\ bb_bucket' = bb_category(blind_action)
    /\ UNCHANGED <<blind_input, blind_action>>
    /\ UNCHANGED bbOthers

BlindsNext == BuildSizedAction \/ CategorizeBlinds

(***************************************************************************)
(* Specifications                                                          *)
(***************************************************************************)
InitPosition == PositionInit /\ TournamentIdle /\ DistributorIdle /\ QueryIdle /\ CardsIdle /\ SizingIdle /\ HandIdle /\ ExportIdle /\ ReportIdle /\ BlindsIdle
SpecPosition == InitPosition /\ [][PositionNext]_vars

InitTournament == TournamentInit /\ PositionIdle /\ DistributorIdle /\ QueryIdle /\ CardsIdle /\ SizingIdle /\ HandIdle /\ ExportIdle /\ ReportIdle /\ BlindsIdle
SpecTournament == InitTournament /\ [][TournamentNext]_vars

InitDistributor == DistributorInit /\ PositionIdle /\ TournamentIdle /\ QueryIdle /\ CardsIdle /\ SizingIdle /\ HandIdle /\ ExportIdle /\ ReportIdle /\ BlindsIdle
SpecDistributor == InitDistributor /\ [][DistributorNext]_vars

InitQuery == QueryInit /\ PositionIdle /\ TournamentIdle /\ DistributorIdle /\ CardsIdle /\ SizingIdle /\ HandIdle /\ ExportIdle /\ ReportIdle /\ BlindsIdle
SpecQuery == InitQuery /\ [][QueryNext]_vars

InitCards ==
    /\ CardsInit /\ PositionIdle /\ TournamentIdle /\ DistributorIdle /\ QueryIdle
    /\ SizingIdle /\ HandIdle /\ ExportIdle /\ ReportIdle /\ BlindsIdle
SpecCards == InitCards /\ [][CardsNext]_vars

InitSizing ==
    /\ SizingInit /\ PositionIdle /\ TournamentIdle /\ DistributorIdle /\ QueryIdle
    /\ CardsIdle /\ HandIdle /\ ExportIdle /\ ReportIdle /\ BlindsIdle
SpecSizing == InitSizing /\ [][SizingNext]_vars

InitHand ==
    /\ HandInit /\ PositionIdle /\ TournamentIdle /\ DistributorIdle /\ QueryIdle
    /\ CardsIdle /\ SizingIdle /\ ExportIdle /\ ReportIdle /\ BlindsIdle
SpecHand == InitHand /\ [][HandNext]_vars

InitExport ==
    /\ ExportInit /\ PositionIdle /\ TournamentIdle /\ DistributorIdle /\ QueryIdle
    /\ CardsIdle /\ SizingIdle /\ HandIdle /\ ReportIdle /\ BlindsIdle
SpecExport == InitExport /\ [][ExportNext]_vars

InitReport ==
    /\ ReportInit /\ PositionIdle /\ TournamentIdle /\ DistributorIdle /\ QueryIdle
    /\ CardsIdle /\ SizingIdle /\ HandIdle /\ ExportIdle /\ BlindsIdle
SpecReport == InitReport /\ [][ReportNext]_vars

InitBlinds ==
    /\ BlindsInit /\ PositionIdle /\ TournamentIdle /\ DistributorIdle /\ QueryIdle
    /\ CardsIdle /\ SizingIdle /\ HandIdle /\ ExportIdle /\ ReportIdle
SpecBlinds == InitBlinds /\ [][BlindsNext]_vars

(***************************************************************************)
(* Claims                                                                  *)
(***************************************************************************)

\* ---- what the tasks are worth, counted from the workers' results
RECURSIVE SumOver(_, _)
\* the sum over the tasks in S of one counter of the worker's result
SumOver(S, counter) ==
    IF S = {} THEN 0
    ELSE LET x == CHOOSE y \in S : TRUE
         IN  process_tournament_worker(x)[counter] + SumOver(S \ {x}, counter)
Copies(occ) == Cardinality({k \in 1..Len(occurrences) : occurrences[k] = occ})
\* the accumulators hold the results of exactly the tasks in S, each once
AggregatesExactly(S) ==
    /\ \A i \in 1..Len(tasks) : \A k \in 1..tasks[i].hands :
          Copies([tournament_id |-> i, row |-> k]) = IF i \in S THEN 1 ELSE 0
    /\ total_hands_parsed = SumOver(S, "hands_parsed")
    /\ total_shown_hands = SumOver(S, "shown_hands")
    /\ total_actions = SumOver(S, "actions")

\* C1: process_tournaments aggregates each task's result exactly once: the returned
\* occurrences (as a multiset) and the three totals are the same on the parallel
\* path, the sequential path and a run that falls back to sequential execution after
\* a PermissionError, whenever during the parallel dispatch that error is raised.
C1_EachTaskAggregatedOnce ==
    pd_pc = "returned" => AggregatesExactly(1..Len(tasks))

FailingTasks == {i \in 1..Len(tasks) : tasks[i].raises # "none"}

\* C2: when a worker raises on one tournament, process_tournaments does not abort:
\* it returns the aggregate of every other task, and only the failing tournament's
\* contribution is missing.
C2_WorkerFailureLosesOneTournament ==
    (pd_pc \in {"returned", "raised"} /\ Cardinality(FailingTasks) = 1)
        => (pd_pc = "returned" /\ AggregatesExactly((1..Len(tasks)) \ FailingTasks))

\* ---- the requests as the client sent them, and the responses they got
Clients == DOMAIN requests
Finished(r) == rq_pc[r] = "done"
Response(r) == responses[r][1]
WellFormedFloats == {"15", "20"}
WellFormedInts == {"0", "1", "2"}
MissingRequired(q) == q.position = Absent \/ q.stage = Absent \/ q.action = Absent
\* the message for the first malformed numeric parameter, <<>> when all are well formed
MalformedNumber(q) ==
    IF q.stack_bb_min \notin WellFormedFloats \cup {Absent}
    THEN <<"Invalid float for ", "stack_bb_min", ": ", q.stack_bb_min>>
    ELSE IF q.stack_bb_max \notin WellFormedFloats \cup {Absent}
    THEN <<"Invalid float for ", "stack_bb_max", ": ", q.stack_bb_max>>
    ELSE IF q.limit \notin WellFormedInts \cup {Absent}
    THEN <<"Invalid integer for ", "limit", ": ", q.limit>>
    ELSE <<>>
RECURSIVE SumTotals(_, _)
\* the sum of total_instances over the buckets B of a bucketed view
SumTotals(view, B) ==
    IF B = {} THEN 0
    ELSE LET b == CHOOSE x \in B : TRUE
         IN  view[b].total_instances + SumTotals(view, B \ {b})
Answered200(r) ==
    /\ Finished(r) /\ requests[r].path = "/ranges"
    /\ Len(responses[r]) = 1 /\ Response(r).status = 200
\* the number of distinct combos among the rows the filters select
MatchingCombos(r) ==
    Cardinality({RowKinds[k].cards : k \in {j \in DOMAIN RowKinds :
                    warehouse[j] > 0 /\ _build_where(filters[r], RowKinds[j])}})
AllEqualsPotBuckets(r) ==
    Response(r).body.all.total_instances
        = SumTotals(Response(r).body.by_pot_size, DOMAIN Response(r).body.by_pot_size)

\* C5 (as claimed): for every accepted filter set, with any optional filters and any
\* limit, all.total_instances equals the sum of total_instances over by_pot_size.
C5_AllTotalEqualsPotBucketTotals ==
    \A r \in Clients : Answered200(r) => AllEqualsPotBuckets(r)

\* C5 (amended): the equality holds whenever limit is absent, 0, or at least the
\* number of distinct combos the filters select.
C5_AllTotalEqualsPotBucketTotalsUnlessLimited ==
    \A r \in Clients :
        (Answered200(r) /\ (filters[r].limit \in {None, 0}
                            \/ filters[r].limit >= MatchingCombos(r)))
            => AllEqualsPotBuckets(r)

\* C5 witness: a response for limit=2 over two combos spread over two pot buckets.
C5_Witness ==
    \E r \in Clients :
        /\ Answered200(r)
        /\ filters[r].limit = 2
        /\ MatchingCombos(r) = 2
        /\ Cardinality(DOMAIN Response(r).body.by_pot_size) = 2
        /\ Response(r).body.all.total_instances = 3

\* C6 (as claimed): a GET /ranges without position, stage or action is answered 400
\* with the required-filters error whatever its other parameters, and query_ranges
\* itself fails with that error.
C6_MissingRequiredIs400Required ==
    \A r \in Clients :
        (Finished(r) /\ requests[r].path = "/ranges" /\ MissingRequired(requests[r]))
            => /\ responses[r] = <<[status |-> 400, body |-> [error |-> RequiredMsg]]>>
               /\ query_ranges_exit[r] = "ValueError"

\* C6 (amended): such a request is answered 400; with the required-filters error,
\* raised by query_ranges, when every numeric parameter it carries is well formed,
\* and otherwise with the Invalid float / Invalid integer error of the first
\* malformed one, raised before query_ranges is called.
C6_MissingRequiredIs400 ==
    \A r \in Clients :
        (Finished(r) /\ requests[r].path = "/ranges" /\ MissingRequired(requests[r]))
            => IF MalformedNumber(requests[r]) = <<>>
               THEN /\ responses[r] = <<[status |-> 400, body |-> [error |-> RequiredMsg]]>>
                    /\ query_ranges_exit[r] = "ValueError"
                    /\ conn[r] = 0
               ELSE /\ responses[r] = <<[status |-> 400,
                                         body |-> [error |-> MalformedNumber(requests[r])]]>>
                    /\ query_ranges_exit[r] = "not called"

\* C6 witness: a request with well-formed numbers and no action got the 400.
C6_Witness ==
    \E r \in Clients :
        /\ Finished(r)
        /\ requests[r].path = "/ranges"
        /\ requests[r].action = Absent /\ requests[r].position = "BTN"
        /\ requests[r].stack_bb_min = "20" /\ requests[r].limit = "1"
        /\ Response(r) = [status |-> 400, body |-> [error |-> RequiredMsg]]

\* The one response a finished request must have got; as the claim has it when
\* missingIs = 500 (a missing required filter is "any other failure").
ExpectedResponse(r, missingIs) ==
    LET q == requests[r]
        resp == Response(r)
    IN  IF q.path = "/health" THEN resp = [status |-> 200, body |-> [status |-> "ok"]]
        ELSE IF q.path # "/ranges" THEN resp.status = 404
        ELSE IF MalformedNumber(q) # <<>> THEN resp.status = 400
        ELSE IF MissingRequired(q)
        THEN resp = [status |-> missingIs, body |-> [error |-> RequiredMsg]]
        ELSE IF query_ranges_exit[r] = DbError.type
        THEN resp = [status |-> 500, body |-> [error |-> DbError.msg]]
        ELSE /\ resp.status = 200
             /\ resp.body = Payload(filters[r], rows[r])

\* C7 (as claimed): every GET gets exactly one response: /health 200, unknown path
\* 404, malformed number on /ranges 400, any other failure on /ranges 500 with the
\* error, otherwise 200 with the payload.
C7_OneResponsePerRequest ==
    \A r \in Clients :
        /\ Len(responses[r]) <= 1
        /\ Finished(r) => (Len(responses[r]) = 1 /\ ExpectedResponse(r, 500))

\* C7 (amended): as claimed, except that a missing required filter on /ranges is
\* answered 400 like a malformed number; only a connection or query error gives 500.
C7_OneResponsePerRequestMissingIs400 ==
    \A r \in Clients :
        /\ Len(responses[r]) <= 1
        /\ ~Finished(r) => responses[r] = <<>>
        /\ Finished(r) => (Len(responses[r]) = 1 /\ ExpectedResponse(r, 400))

\* C7 witness: a request whose third query failed got the 500.
C7_Witness ==
    \E r \in Clients :
        /\ Finished(r)
        /\ query_ranges_exit[r] = DbError.type
        /\ rows[r].pot_rows # {} /\ rows[r].bb_rows = {}
        /\ Response(r) = [status |-> 500, body |-> [error |-> DbError.msg]]

\* inside the with block of query_ranges
InWith(r) == rq_pc[r] \in {"_query_all"} \cup DOMAIN BucketQueries

\* C8: with any number of concurrent requests each query_ranges call uses its own
\* connection, closed when the call exits by return or by exception; once every
\* request has finished no connection remains open.
C8_ConnectionPerCallClosedOnExit ==
    /\ \A r \in Clients : InWith(r) => conn[r] \in open_conns
    /\ \A r, s \in Clients : (r # s /\ conn[r] # 0) => conn[r] # conn[s]
    /\ open_conns = {conn[r] : r \in {s \in Clients : InWith(s)}}
    /\ (\A r \in Clients : Finished(r)) => open_conns = {}

\* C8 witness: one call has left by an exception, its connection closed, while a
\* concurrent call still holds its own open connection.
C8_Witness ==
    /\ Len(requests) >= 2
    /\ Finished(1) /\ query_ranges_exit[1] = DbError.type
    /\ conn[1] # 0 /\ conn[1] \notin open_conns
    /\ InWith(2) /\ conn[2] \in open_conns

RECURSIVE SumHandCounts(_, _)
\* the sum of count over the hands H of a summary's hands dictionary
SumHandCounts(hands, H) ==
    IF H = {} THEN 0
    ELSE LET h == CHOOSE x \in H : TRUE
         IN  hands[h].count + SumHandCounts(hands, H \ {h})
BucketViews == {"by_pot_size", "by_bb_size", "by_stack_bucket", "by_tournament_stage"}
\* every summary object of a response body
Summaries(body) ==
    {body.all} \cup UNION {{body[v][b] : b \in DOMAIN body[v]} : v \in BucketViews}

\* C16: in every summary object of a response (the all summary and every bucket
\* summary of the four bucketed views) the counts of the hands add up to
\* total_instances and unique_combos is the number of hands listed.
C16_SummaryTotalsMatchHands ==
    \A r \in Clients :
        Answered200(r) =>
            \A summary \in Summaries(Response(r).body) :
                /\ SumHandCounts(summary.hands, DOMAIN summary.hands)
                       = summary.total_instances
                /\ Cardinality(DOMAIN summary.hands) = summary.unique_combos

\* C16 witness: a response whose OPEN pot bucket lists two hands over three rows.
C16_Witness ==
    \E r \in Clients :
        /\ Answered200(r)
        /\ "OPEN" \in DOMAIN Response(r).body.by_pot_size
        /\ Response(r).body.by_pot_size["OPEN"].unique_combos = 2
        /\ Response(r).body.by_pot_size["OPEN"].total_instances = 3
        /\ Cardinality(Summaries(Response(r).body)) >= 3

\* ---- card normalizer
Swapped(text) == <<text[4], text[5], text[3], text[1], text[2]>>
HighFirst(text) ==
    IF index(text[1]) <= index(text[4]) THEN <<text[1], text[4]>> ELSE <<text[4], text[1]>>

\* C12: for any two cards Xa and Yb, normalize_card_notation("Xa Yb") equals
\* normalize_card_notation("Yb Xa").
C12_NormalizeIsSymmetric ==
    (cards_text \in TwoCardTexts /\ normalized # NotCalled)
        => normalized = normalize_card_notation(Swapped(cards_text))

\* C12 witness: the lower card was shown first and the higher rank came out first.
C12_Witness ==
    /\ cards_text = <<"T", "h", " ", "A", "c">>
    /\ normalized = <<"A", "T", "o">>

\* C13: for any two-card string the result is the two ranks high to low, followed by
\* nothing when the ranks are equal, otherwise by s when the suits are equal,
\* otherwise by o.
C13_PairThenSuitedThenOffsuit ==
    (cards_text \in TwoCardTexts /\ normalized # NotCalled)
        => normalized = HighFirst(cards_text)
                          \o (IF cards_text[1] = cards_text[4] THEN <<>>
                              ELSE IF cards_text[2] = cards_text[5] THEN <<"s">>
                              ELSE <<"o">>)

\* ---- bet sizing
PotThresholds == <<33, 50, 75, 100, 150, 200, 300>>
PotLabels == <<"<0.33x", "0.33x", "0.5x", "0.75x", "1x", "1.5x", "2x", "3x+">>
PotBucketOrder == <<"OPEN">> \o PotLabels
Ordinal(label) == CHOOSE i \in DOMAIN PotBucketOrder : PotBucketOrder[i] = label
\* the label of amount/pot: one past the number of thresholds at or below the ratio
LabelOf(amount, pot) ==
    PotLabels[1 + Cardinality({i \in DOMAIN PotThresholds :
                                  PotThresholds[i] * pot <= amount * 100})]
Categorized(k) == Len(pot_categories) >= k

\* C14: a bet or raise is OPEN when pot_before is 0 and otherwise falls, by
\* amount/pot_before, into the bucket of the largest of the thresholds 0.33, 0.50,
\* 0.75, 1.0, 1.5, 2.0, 3.0 at or below it (<0.33x under them all); any other action
\* type is N/A.
C14_PotBucketByLowerInclusiveThresholds ==
    \A k \in 1..2 :
        Categorized(k) =>
            pot_categories[k] =
                IF bet_type \notin {"bet", "raise"} THEN "N/A"
                ELSE IF bet_pot = 0 THEN "OPEN"
                ELSE LabelOf(bet_amounts[k], bet_pot)

\* C14 witness: a raise to 300 into a pot of 150 came out as 2x.
C14_Witness ==
    /\ bet_type = "raise" /\ bet_pot = 150 /\ bet_amounts[1] = 300
    /\ Categorized(1) /\ pot_categories[1] = "2x"

\* C15: of two bets into the same pot_before > 0, the smaller one's pot_bucket
\* never comes after the larger one's in the bucket order.
C15_PotBucketMonotone ==
    (Categorized(2) /\ bet_type \in {"bet", "raise"} /\ bet_pot > 0
        /\ bet_amounts[1] < bet_amounts[2])
        => Ordinal(pot_categories[1]) <= Ordinal(pot_categories[2])

\* C15 witness: a third-pot bet and a triple-pot bet into the same pot.
C15_Witness ==
    /\ bet_type = "bet" /\ bet_pot = 100 /\ bet_amounts = <<33, 300>>
    /\ pot_categories = <<"0.33x", "3x+">>

\* ---- hand parser
HandReturned == ph_pc = "returned"
HandRecorded == ph_pc = "returned" /\ add_idx > Len(shown_hands)
\* The six-handed example: button at seat 2, seat 4 shows Ac Th, the button 7h 7d.
SixMaxExample ==
    /\ hand.seats = SixSeats /\ hand.button = 2
    /\ hand.summary = <<Shown(<<"p", 4>>, AceTen), Shown(<<"p", 2>>, Sevens)>>
SixMaxResult(seat4_position) ==
    /\ Len(shown_hands) = 2
    /\ shown_hands[1].player = <<"p", 4>> /\ shown_hands[1].cards = <<"A", "T", "o">>
    /\ shown_hands[1].position = seat4_position
    /\ shown_hands[2].player = <<"p", 2>> /\ shown_hands[2].cards = <<"7", "7">>
    /\ shown_hands[2].position = "BTN"

\* C11 (as claimed): with six players and the button at seat 2, the seat-4 player
\* showing Ac Th comes out as ATo at MP(6) and the button showing 7h 7d as 77 at BTN.
C11_SixMaxExampleSeat4IsMP ==
    (HandReturned /\ SixMaxExample) => SixMaxResult("MP(6)")

\* C11 (amended): the seat-4 player, two seats after the button, comes out as ATo
\* at BB; the button as 77 at BTN.
C11_SixMaxExampleSeat4IsBB ==
    (HandReturned /\ SixMaxExample) => SixMaxResult("BB")

\* C11 witness: the example hand, with betting lines, has been parsed.
C11_Witness ==
    /\ HandReturned /\ SixMaxExample
    /\ hand.lines # <<>> /\ Len(shown_hands) = 2

Seated(h) == {h.seats[i].name : i \in DOMAIN h.seats}
\* the showed lines of seated players whose cards parse, in text order
ShowLines(h) ==
    LET Counts(m) == m.name \in Seated(h) /\ m.cards \in TwoCardTexts
    IN  SelectSeq(h.summary, Counts)
\* the action types a line records for player p: on a line without a street
\* marker, the first pattern in priority order that names a seated player, when
\* that player is p
RecordedType(h, l, p) ==
    {t \in DOMAIN l.hits :
        /\ l.marker = "" /\ l.hits[t].player = p /\ p \in Seated(h)
        /\ \A i, j \in DOMAIN ACTION_PATTERNS :
               (ACTION_PATTERNS[j] = t /\ i < j /\ ACTION_PATTERNS[i] \in DOMAIN l.hits)
                   => l.hits[ACTION_PATTERNS[i]].player \notin Seated(h)}
\* the recorded actions of player p, in text order, as (type, amount)
RecordedActions(h, p) ==
    LET Mine(l) == RecordedType(h, l, p) # {}
        mine == SelectSeq(h.lines, Mine)
    IN  [k \in DOMAIN mine |->
            LET t == CHOOSE t \in RecordedType(h, mine[k], p) : TRUE
            IN  [player |-> p, action_type |-> t,
                 amount |-> IF t \in {"raise", "bet", "call"}
                            THEN mine[k].hits[t].amount ELSE 0]]
RECURSIVE ExpectedRows(_, _)
\* what the show lines from the k-th on are worth: each player's actions in turn
ExpectedRows(h, k) ==
    IF k > Len(ShowLines(h)) THEN <<>>
    ELSE RecordedActions(h, ShowLines(h)[k].name) \o ExpectedRows(h, k + 1)
Essence(actions) ==
    [k \in DOMAIN actions |->
        [player |-> actions[k].player, action_type |-> actions[k].action_type,
         amount |-> actions[k].amount]]
RowEssence(occs) ==
    [k \in DOMAIN occs |->
        [player |-> occs[k].player, action_type |-> occs[k].action_type,
         amount |-> occs[k].action_amount]]
RowsOf(p) == LET His(row) == row.player = p IN SelectSeq(analyzer_occurrences, His)
HandKept(h) == h.button # None /\ LineCount(h) >= 5

\* C17 (as claimed): for each hand, every seated player revealed by a showed line
\* with parseable cards yields one PlayerHand, a shown player with k recorded
\* actions contributes exactly k rows, all with showdown = true, and players who
\* did not show contribute none.
C17_OneRowPerShownPlayerAction ==
    HandRecorded =>
        LET shown == {ShowLines(hand)[k].name : k \in DOMAIN ShowLines(hand)}
        IN  /\ Len(shown_hands) = Cardinality(shown)
            /\ \A p \in shown : Len(RowsOf(p)) = Len(RecordedActions(hand, p))
            /\ \A k \in DOMAIN analyzer_occurrences :
                   /\ analyzer_occurrences[k].player \in shown
                   /\ analyzer_occurrences[k].showdown

\* C17 (amended): for each hand that is not dropped (a button line and at least
\* five lines), every showed line of a seated player with parseable cards yields one
\* PlayerHand carrying all of that player's recorded actions in text order, and the
\* rows are those actions, one row each, PlayerHand after PlayerHand, all with
\* showdown = true; a dropped hand yields no PlayerHand and no row.
C17_OneRowPerShowLineAction ==
    HandRecorded =>
        IF HandKept(hand)
        THEN /\ Len(shown_hands) = Len(ShowLines(hand))
             /\ \A k \in DOMAIN shown_hands :
                    /\ shown_hands[k].player = ShowLines(hand)[k].name
                    /\ Essence(shown_hands[k].actions)
                           = RecordedActions(hand, shown_hands[k].player)
             /\ RowEssence(analyzer_occurrences) = ExpectedRows(hand, 1)
             /\ \A k \in DOMAIN analyzer_occurrences : analyzer_occurrences[k].showdown
             /\ analyzer_shown_hands = Len(shown_hands)
        ELSE shown_hands = <<>> /\ analyzer_occurrences = <<>>

\* C17 witness: two players showed; the one with two actions gave two rows, the
\* one with one action one row, and a stranger's bet gave none.
C17_Witness ==
    /\ HandRecorded /\ HandKept(hand)
    /\ Len(shown_hands) = 2
    /\ Len(shown_hands[1].actions) = 2 /\ Len(shown_hands[2].actions) = 1
    /\ Len(analyzer_occurrences) = 3

\* ---- the betting lines of a hand
\* A step of the loop over the lines: the line at line_idx has been examined.
LineExamined == ph_pc = "lines" /\ line_idx' = line_idx + 1
ExaminedLine == hand.lines[line_idx]
\* the HandActions held for all players, as (player, index) pairs
Emitted(by_player) ==
    UNION {{<<p, k>> : k \in 1..Len(by_player[p])} : p \in DOMAIN by_player}
\* the HandActions the step appended
EmittedNow ==
    {actions_by_player'[e[1]][e[2]] : e \in Emitted(actions_by_player') \ Emitted(actions_by_player)}
\* the patterns that match the line, as indexes into the priority order
Matching(l) == {i \in DOMAIN ACTION_PATTERNS : ACTION_PATTERNS[i] \in DOMAIN l.hits}
FirstMatching(l) == CHOOSE i \in Matching(l) : \A j \in Matching(l) : i <= j
RECURSIVE Committed(_, _)
\* the chips of the raises (the raise-to amount), bets and calls among the
\* HandActions e of by_player
Committed(by_player, e) ==
    IF e = {} THEN 0
    ELSE LET x == CHOOSE x \in e : TRUE
             a == by_player[x[1]][x[2]]
         IN  (IF a.action_type \in {"raise", "bet", "call"} THEN a.amount ELSE 0)
             + Committed(by_player, e \ {x})
\* the stage in force on line k: that of the last marker line before it
StageAt(h, k) ==
    LET markers == {j \in 1..(k - 1) : h.lines[j].marker # ""}
    IN  IF markers = {} THEN "preflop"
        ELSE LET last == CHOOSE j \in markers : \A i \in markers : i <= j
             IN  CASE h.lines[last].marker = "FLOP" -> "flop"
                   [] h.lines[last].marker = "TURN" -> "turn"
                   [] h.lines[last].marker = "RIVER" -> "river"

\* C23: a line yields at most one HandAction, and only the first pattern of the
\* priority order raise, bet, call, fold, check that matches the line is applied:
\* once a pattern has matched, no later one is tried, whether or not the matched
\* player is seated.
C23_OnlyFirstMatchingPatternApplies ==
    [][LineExamined =>
          /\ Cardinality(EmittedNow) <= 1
          /\ Cardinality(Emitted(actions_by_player'))
                 <= Cardinality(Emitted(actions_by_player)) + 1
          /\ \A a \in EmittedNow :
                 /\ Matching(ExaminedLine) # {}
                 /\ a.action_type = ACTION_PATTERNS[FirstMatching(ExaminedLine)]
                 /\ a.player = ExaminedLine.hits[a.action_type].player]_vars

\* C24: the pot_before of a HandAction is the sum of the raise-to, bet and call
\* amounts of the HandActions emitted on earlier lines, 0 for the first; the
\* action's own amount enters the running pot after it is emitted, a fold or check
\* leaves the running pot as it is, and pot_before never decreases along the hand.
C24_PotBeforeIsChipsCommittedEarlier ==
    [][LineExamined =>
          LET before == Committed(actions_by_player, Emitted(actions_by_player))
          IN  /\ pot_size = before
              /\ pot_size' = Committed(actions_by_player', Emitted(actions_by_player'))
              /\ EmittedNow = {} => pot_size' = pot_size
              /\ \A a \in EmittedNow :
                     /\ a.pot_before = before
                     /\ a.action_type \in {"fold", "check"} => pot_size' = pot_size
                     /\ a.action_type \in {"raise", "bet", "call"}
                            => pot_size' = pot_size + a.amount
                     /\ \A e \in Emitted(actions_by_player) :
                            actions_by_player[e[1]][e[2]].pot_before <= a.pot_before]_vars

\* C24 witness: after a raise to 300 and a call of 300, a check saw a pot of 600.
C24_Witness ==
    /\ ph_pc = "lines"
    /\ <<"p", 4>> \in DOMAIN actions_by_player
    /\ Len(actions_by_player[<<"p", 4>>]) = 2
    /\ actions_by_player[<<"p", 4>>][1].action_type = "raise"
    /\ actions_by_player[<<"p", 4>>][2].action_type = "check"
    /\ actions_by_player[<<"p", 4>>][2].pot_before = 600

\* C25: the stage of a HandAction is preflop when no FLOP, TURN or RIVER marker
\* line precedes its line, and otherwise the stage of the last marker line before
\* it; a marker line itself yields no HandAction.
C25_StageIsThatOfLastMarker ==
    [][LineExamined =>
          /\ ExaminedLine.marker # "" => EmittedNow = {}
          /\ \A a \in EmittedNow : a.stage = StageAt(hand, line_idx)]_vars

\* C25 witness: after a FLOP and then a TURN marker, an action was emitted on the
\* turn.
C25_Witness ==
    /\ ph_pc = "lines" /\ line_idx = 4
    /\ hand.lines[1].marker = "FLOP" /\ hand.lines[2].marker = "TURN"
    /\ \E p \in DOMAIN actions_by_player :
           actions_by_player[p] # <<>> /\ actions_by_player[p][1].stage = "turn"

\* the positions handed out in the hand: to the players who acted and who showed
Assigned ==
    {<<e[1], actions_by_player[e[1]][e[2]].position>> : e \in Emitted(actions_by_player)}
    \cup {<<shown_hands[k].player, shown_hands[k].position>> : k \in DOMAIN shown_hands}

\* C29: whatever seats are occupied and wherever the button is, at most one
\* seated player is given the position BTN, and it is the player in the button seat.
C29_ButtonPositionIsUnique ==
    (ph_pc \in {"lines", "returned"} /\ players # <<>>) =>
        \A x \in Assigned :
            x[2] = "BTN" => players[x[1]].seat = hand.button

\* ---- warehouse exporter
Table == disk.tables["range_occurrences"]
TableExists == disk.exists /\ "range_occurrences" \in DOMAIN disk.tables
\* the table of the export under way exists from _populate on
Populating == export_pc \in {"_populate", "for occ", "_create_indexes", "close", "returned"}
ExportReturned == export_pc = "returned"
RECURSIVE RowCountOf(_)
\* the number of rows of a sequence of inserted batches
RowCountOf(batches) ==
    IF batches = <<>> THEN 0
    ELSE batches[Len(batches)].count + RowCountOf(SubSeq(batches, 1, Len(batches) - 1))
\* the batches follow each other through the list: every index once, in input order
InInputOrder(batches) ==
    \A k \in DOMAIN batches :
        batches[k].first = 1 + RowCountOf(SubSeq(batches, 1, k - 1))

\* C18: every occurrence is inserted in exactly one batch, in input order; every
\* batch inserted holds between 1 and 200,000 rows; a batch is flushed as soon as it
\* reaches 200,000 rows; the final partial batch is flushed; after export the table
\* holds as many rows as occurrences were given.
C18_BatchesPartitionTheInput ==
    Populating =>
        /\ TableExists
        /\ InInputOrder(Table.batches)
        /\ \A k \in DOMAIN Table.batches :
               /\ Table.batches[k].export = export_idx
               /\ Table.batches[k].count >= 1
               /\ Table.batches[k].count <= 200000
               /\ (k < Len(Table.batches) \/ export_pc = "for occ")
                      => Table.batches[k].count = 200000
        /\ batch_count < 200000 /\ batch.count = batch_count
        /\ export_pc = "for occ" => RowCountOf(Table.batches) + batch_count = occ_idx - 1
        /\ ExportReturned => RowCountOf(Table.batches) = exports[export_idx]

\* C18 witness: 400,001 occurrences went in as two full batches and a batch of one.
C18_Witness ==
    /\ ExportReturned
    /\ exports[export_idx] = 400001
    /\ Len(Table.batches) = 3
    /\ Table.batches[3] = Run(export_idx, 400001, 1)

\* C19: after export returns for any list of occurrences, empty or not, the
\* warehouse holds the table range_occurrences with its three indexes, and no batch
\* was inserted after an index was created.
C19_TableAndIndexesAfterExport ==
    ExportReturned =>
        /\ TableExists
        /\ Table.indexes = INDEXES
        /\ \A i, j \in DOMAIN executed :
               (executed[i] = "CREATE INDEX" /\ executed[j] = "INSERT") => j < i

\* the batches one export of n occurrences leaves in an empty table
ExpectedBatches(n) ==
    [k \in 1..((n + 200000 - 1) \div 200000) |->
        [first |-> (k - 1) * 200000 + 1,
         count |-> IF n - (k - 1) * 200000 < 200000
                   THEN n - (k - 1) * 200000 ELSE 200000]]

\* C20: after any sequence of exports to the same path the warehouse holds the
\* table range_occurrences and nothing else, with exactly the rows of the last
\* export: no row of an earlier export or of an earlier file survives, so a second
\* export of the same occurrences leaves the rows of a single one.
C20_LastExportReplacesWarehouse ==
    ExportReturned =>
        /\ disk.exists
        /\ DOMAIN disk.tables = {"range_occurrences"}
        /\ \A k \in DOMAIN Table.batches : Table.batches[k].export = export_idx
        /\ [k \in DOMAIN Table.batches |->
               [first |-> Table.batches[k].first, count |-> Table.batches[k].count]]
               = ExpectedBatches(exports[export_idx])

\* C20 witness: the same two occurrences were exported twice over an older file.
C20_Witness ==
    /\ ExportReturned
    /\ export_idx = 2 /\ exports = <<2, 2>>
    /\ Table.batches = <<Run(2, 1, 2)>>

\* ---- report builder
RankOf(ch) == IndexOf(RANK_ORDER, ch)
IsPair(hand_label) == Len(hand_label) = 2
\* The documented listing order: pairs before non-pairs, pairs from the highest
\* rank down, non-pairs by high card then low card from the highest down, and the
\* suited combo before the offsuit one of the same ranks.
ListedBefore(a, b) ==
    IF IsPair(a) /\ IsPair(b) THEN RankOf(a[1]) < RankOf(b[1])
    ELSE IF IsPair(a) # IsPair(b) THEN IsPair(a)
    ELSE IF a[1] # b[1] THEN RankOf(a[1]) < RankOf(b[1])
    ELSE IF a[2] # b[2] THEN RankOf(a[2]) < RankOf(b[2])
    ELSE a[3] = "s" /\ b[3] = "o"
InListedOrder(listed) ==
    \A i, j \in DOMAIN listed : i < j => ListedBefore(listed[i].hand, listed[j].hand)
\* The combo lists of run r: the cell's line and its bucket lines.
ComboLists(r) ==
    {action_data[r].hands}
        \cup {action_data[r].by_pot_size[b] : b \in DOMAIN action_data[r].by_pot_size}

\* C21: in every cell line and bucket line the combos are listed pairs first, from
\* AA down to 22, then the non-pairs by high card and then low card from the
\* highest down, the suited combo before the offsuit combo of the same ranks.
C21_CombosListedPairsFirstHighToLow ==
    \A r \in DOMAIN report_pc : \A listed \in ComboLists(r) : InListedOrder(listed)

\* C22: two runs of generate_report over the same rows give the same text,
\* whatever order the engine returned the grouped rows in.
C22_ReportTextIsDeterministic ==
    (report_pc # <<>> /\ \A r \in Runs : report_pc[r] = "done")
        => report_lines[1] = report_lines[2]

\* ---- big blind buckets
BlindThresholds(action_type, stage) ==
    IF stage # "preflop" THEN <<100, 300, 600, 1000>>
    ELSE IF action_type = "raise" THEN <<250, 300, 400, 600, 1000>>
    ELSE <<200, 300, 500>>
BlindLabels(action_type, stage) ==
    IF stage # "preflop" THEN <<"<1BB", "1-3BB", "3-6BB", "6-10BB", "10BB+">>
    ELSE IF action_type = "raise"
    THEN <<"MINRAISE", "2.5BB", "3BB", "4-5BB", "6-9BB", "10BB+">>
    ELSE <<"1BB_CALL", "2BB_CALL", "3-4BB_CALL", "5BB+_CALL">>
\* the label of amount/bb_size: one past the number of thresholds at or below it
BlindLabelOf(action_type, stage, amount, big_blind) ==
    BlindLabels(action_type, stage)[
        1 + Cardinality({i \in DOMAIN BlindThresholds(action_type, stage) :
                            BlindThresholds(action_type, stage)[i] * big_blind
                                <= amount * 100})]
BlindsCategorized == blind_input # <<>> /\ bb_bucket # ""

\* C28: the big blind bucket of an action is that of the largest threshold at or
\* below amount_bb: 2.5, 3, 4, 6, 10 for a preflop raise, 2, 3, 5 for a preflop
\* call, 1, 3, 6, 10 for a postflop bet, raise or call; a preflop bet is OTHER and
\* a fold or check is N/A.
C28_BlindBucketByLowerInclusiveThresholds ==
    BlindsCategorized =>
        bb_bucket =
            IF blind_input.action_type \in {"fold", "check"} THEN "N/A"
            ELSE IF blind_input.stage = "preflop" /\ blind_input.action_type = "bet"
            THEN "OTHER"
            ELSE BlindLabelOf(blind_input.action_type, blind_input.stage,
                              blind_input.amount, blind_input.bb_size)

\* C28 witness: a preflop raise to 50 with a big blind of 20 came out as 2.5BB.
C28_Witness ==
    /\ BlindsCategorized
    /\ blind_input = [action_type |-> "raise", stage |-> "preflop", amount |-> 50,
                      bb_size |-> 20]
    /\ bb_bucket = "2.5BB"

\* ---- the stage rule of the classifier, stated over the whole entry list
PayoutOrders == {hand_entries[i].order : i \in {j \in 1..Len(hand_entries) :
                                                   Text(hand_entries[j]).payout}}
FinalOrders == {hand_entries[i].order : i \in {j \in 1..Len(hand_entries) :
                                                  Text(hand_entries[j]).final}}
Least(S) == CHOOSE x \in S : \A y \in S : x <= y
RuleFirstPayout == IF PayoutOrders = {} THEN None ELSE Least(PayoutOrders)
RuleFirstFinalTable == IF FinalOrders = {} THEN None ELSE Least(FinalOrders)
\* the order_index at which a level label first appears
FirstSeen(l) == Least({hand_entries[i].order : i \in {j \in 1..Len(hand_entries) :
                                                         hand_entries[j].level = l}})
SeenLevels == {hand_entries[i].level : i \in 1..Len(hand_entries)}
RuleBubbleLevel ==
    IF RuleFirstPayout = None THEN "None"
    ELSE LET i == CHOOSE j \in 1..Len(hand_entries) : hand_entries[j].order = RuleFirstPayout
         IN  hand_entries[i].level
\* the (at most three) labels that first appear right before the bubble level
RulePreBubbleLevels ==
    IF RuleFirstPayout = None THEN {}
    ELSE {l \in SeenLevels :
            /\ FirstSeen(l) < FirstSeen(RuleBubbleLevel)
            /\ Cardinality({m \in SeenLevels : /\ FirstSeen(l) < FirstSeen(m)
                                               /\ FirstSeen(m) < FirstSeen(RuleBubbleLevel)}) < 3}
RuleStage(entry) ==
    IF RuleFirstFinalTable # None /\ entry.order >= RuleFirstFinalTable THEN "final_table"
    ELSE IF RuleFirstPayout # None /\ entry.level = RuleBubbleLevel
            /\ entry.order >= RuleFirstPayout THEN "bubble"
    ELSE IF RuleFirstPayout # None /\ entry.level \in RulePreBubbleLevels
            /\ entry.order < RuleFirstPayout THEN "pre_bubble"
    ELSE "start"

\* C3: the tournament_stage parse_tournament attaches to every hand is the label
\* the priority rule (final_table, bubble, pre_bubble, start) gives for that hand's
\* own order_index and level, whatever the hand ids.
C3_StageFollowsPriorityRule ==
    \A i \in 1..Len(stage_labels) : stage_labels[i] = RuleStage(hand_entries[i])

\* ---- the hands of a tournament
DistinctIds ==
    \A i, j \in 1..Len(hand_entries) : i # j => hand_entries[i].id # hand_entries[j].id
StagesBuilt == pt_pc \in {"hands", "returned"}
RECURSIVE ExpectedShown(_)
\* what the first n hands are worth: one PlayerHand for each hand that parses, with
\* the hand's own order_index and stage label, whatever became of the other hands
ExpectedShown(n) ==
    IF n = 0 THEN <<>>
    ELSE ExpectedShown(n - 1)
         \o (IF Text(hand_entries[n]).parse = "shown"
             THEN <<[hand_id |-> hand_entries[n].id, order_index |-> n - 1,
                     tournament_stage |-> stage_labels[n],
                     chunk_index |-> hand_entries[n].chunk]>>
             ELSE <<>>)

\* C26: a hand without a button line yields no PlayerHand, and neither it nor a hand
\* whose parse raises stops the hands after it from being parsed or changes their
\* order_index or tournament_stage.
C26_DroppedHandLeavesOthersAlone ==
    StagesBuilt =>
        /\ tournament_shown = ExpectedShown(Len(stage_labels))
        /\ pt_pc = "returned" => Len(stage_labels) = Len(hand_entries)
        /\ DistinctIds =>
               \A n \in 1..Len(stage_labels) : stage_labels[n] = RuleStage(hand_entries[n])

\* C26 witness: of three hands the first had no button line, the second made the
\* parse raise, and the third, with a payout line, came out with order_index 2 on
\* the bubble.
C26_Witness ==
    /\ pt_pc = "returned"
    /\ Len(hand_entries) = 3
    /\ Text(hand_entries[1]).parse = "no_button"
    /\ Text(hand_entries[2]).parse = "raises"
    /\ Len(tournament_shown) = 1
    /\ tournament_shown[1].order_index = 2
    /\ tournament_shown[1].tournament_stage = "bubble"

\* C27: pre_bubble_levels is empty when no hand has a payout line; otherwise it
\* holds the at most three distinct level labels that first appeared right before
\* bubble_level, in the order of their first appearance, never bubble_level itself;
\* and bubble_level is the level of the earliest hand with a payout line.
C27_PreBubbleLevelsPrecedeBubbleLevel ==
    StagesBuilt =>
        IF PayoutOrders = {}
        THEN pre_bubble_levels = <<>> /\ bubble_level = "None"
        ELSE /\ bubble_level = RuleBubbleLevel
             /\ Len(pre_bubble_levels) <= 3
             /\ {pre_bubble_levels[k] : k \in DOMAIN pre_bubble_levels} = RulePreBubbleLevels
             /\ \A k, m \in DOMAIN pre_bubble_levels :
                    k < m => FirstSeen(pre_bubble_levels[k]) < FirstSeen(pre_bubble_levels[m])
             /\ \A k \in DOMAIN pre_bubble_levels : pre_bubble_levels[k] # bubble_level

\* C27 witness: the first payout came on the fifth level of a tournament; the
\* second, third and fourth levels are the pre-bubble levels.
C27_Witness ==
    /\ pt_pc = "returned"
    /\ bubble_level = "V"
    /\ pre_bubble_levels = <<"II", "III", "IV">>
    /\ hand_entries[1].level = "I"

Phase(label) ==
    CASE label = "start" -> 1 [] label = "pre_bubble" -> 2 [] label = "bubble" -> 3
      [] label = "final_table" -> 4

\* C30: with distinct hand ids, the tournament_stage labels never move backwards
\* along order_index in the order start, pre_bubble, bubble, final_table.
C30_StageNeverMovesBackwards ==
    (pt_pc = "returned" /\ DistinctIds) =>
        \A i, j \in 1..Len(stage_labels) :
            i < j => Phase(stage_labels[i]) <= Phase(stage_labels[j])

\* The blocks of the readable files that are not blank, as <<file, block>>.
HandBlocksRead(upto) ==
    {<<f, b>> \in (1..Len(file_entries)) \X (1..MaxBlocks + MaxHands) :
        /\ f < upto
        /\ file_entries[f].readable
        /\ b <= Len(file_entries[f].blocks)
        /\ ~file_entries[f].blocks[b].blank}
TextBefore(s, t) == s[1] < t[1] \/ (s[1] = t[1] /\ s[2] < t[2])

\* C4: within one parse_tournament call the non-blank blocks receive order_index
\* 0, 1, ..., n-1 without gap or repeat, in file order and then text order, also when
\* some files cannot be read and are skipped.
C4_OrderIndexContiguous ==
    pt_pc # "idle" =>
        /\ \A i \in 1..Len(hand_entries) : hand_entries[i].order = i - 1
        /\ order_index = Len(hand_entries)
        /\ \A i, j \in 1..Len(hand_entries) :
              i < j => TextBefore(hand_entries[i].text, hand_entries[j].text)
        /\ {hand_entries[i].text : i \in 1..Len(hand_entries)} = HandBlocksRead(file_idx)

\* C4 witness: a finished call that skipped an unreadable file, then skipped a blank
\* block and gave the hand after it order_index 0.
C4_Witness ==
    /\ pt_pc = "returned"
    /\ Len(file_entries) = 2
    /\ ~file_entries[1].readable
    /\ file_entries[2].readable
    /\ Len(file_entries[2].blocks) = 2
    /\ file_entries[2].blocks[1].blank
    /\ Len(hand_entries) = 1
    /\ hand_entries[1].order = 0
    /\ hand_entries[1].text = <<2, 2>>

\* C9: for every table size total_seats >= 2 and every seat s,
\* get_position(s, button_seat = s, total_seats) is BTN.
C9_ButtonSeatIsBTN ==
    (position \notin {"idle", "not called"} /\ total_seats >= 2 /\ seat_num = button_seat)
        => position = "BTN"

\* C9 witness: the call was made for the button seat of a nine-handed table.
C9_Witness ==
    /\ position = "BTN" /\ total_seats = 9 /\ seat_num = button_seat /\ seat_num = 5

\* C10: for every table size total_seats >= 4, get_position returns CO for the seat
\* one before the button ((seat - button_seat) mod total_seats = total_seats - 1)
\* and for no other seat.
C10_CutoffIsSeatBeforeButton ==
    (position \notin {"idle", "not called"} /\ total_seats >= 4)
        => (position = "CO" <=> (seat_num - button_seat) % total_seats = total_seats - 1)

====
